---- MODULE Spec2Model ----
(***************************************************************************)
(* EasyTSDB (easy-storage v2): the time-series engine that buffers points  *)
(* in RAM, shards them to one JSON file per UTC hour or minute, keeps a    *)
(* checksummed directory index with a backup copy and answers range        *)
(* queries through a memoizing scan.                                       *)
(*                                                                         *)
(* Time is counted in whole seconds since the Unix epoch (the millisecond  *)
(* part of every timestamp is zero).  A date key "YYYY_MM_DD" is held as   *)
(* the number of its civil day since 1970-01-01; its text is rebuilt where *)
(* the code looks at the characters (the index checksum).  A shard path    *)
(* "<dir>/<date>_<HH>[_<MM>].json" is held as <<day, hour, minute>>, with  *)
(* minute = NoMinute under the hour frame.                                 *)
(***************************************************************************)
EXTENDS Integers, Sequences, FiniteSets, TLC

(***************************************************************************)
(* Bounds of the model.                                                    *)
(***************************************************************************)
\* writePoint calls accepted in one behaviour
MaxWrites == 2
\* query-cache entries created in one behaviour
MaxQueries == 1

(***************************************************************************)
(* Calendar of the JS Date object.                                         *)
(***************************************************************************)
SecPerMinute == 60
SecPerHour == 3600
SecPerDay == 86400
NoMinute == 0 - 1

\* 2024-03-15, the day of the boundary tests
Day0 == 19797
\* 2024-03-14T23:00:00Z, 2024-03-15T00:00:00Z, 2024-03-15T00:30:30Z
TA == Day0 * SecPerDay - SecPerHour
TB == Day0 * SecPerDay
TC == Day0 * SecPerDay + 1830
Timestamps == {TA, TB, TC}
\* the points written: two measurements, two of them in one bucket
Points ==
  {[m |-> "temperature", v |-> 1, t |-> TA], [m |-> "temperature", v |-> 2, t |-> TB],
   [m |-> "humidity", v |-> 2, t |-> TB], [m |-> "humidity", v |-> 1, t |-> TC]}
\* max_ram: the default, and a ceiling that two buffered points exceed
DefaultMaxRam == 204800
SmallMaxRam == 60
\* #defaults.autosave_interval, in seconds
DefaultAutosaveInterval == 600
\* the autosave_interval of the documented example, in seconds
CustomAutosaveInterval == 120
\* <<offset of the host's local time from UTC in seconds, time_frame, max_ram>>
Configurations ==
  {<<0, "hour", DefaultMaxRam>>, <<0 - SecPerHour, "hour", DefaultMaxRam>>,
   <<SecPerHour, "hour", DefaultMaxRam>>, <<0, "minute", DefaultMaxRam>>,
   <<0, "hour", SmallMaxRam>>}

UTCDay(t) == t \div SecPerDay
UTCHours(t) == (t % SecPerDay) \div SecPerHour
UTCMinutes(t) == (t % SecPerHour) \div SecPerMinute
\* getFullYear/getMonth/getDate read the host's local calendar
LocalDay(t, tzo) == (t + tzo) \div SecPerDay

\* year, month, day of a day number (the proleptic Gregorian calendar of Date)
CivilFromDays(z0) ==
  LET z == z0 + 719468
      era == z \div 146097
      doe == z - era * 146097
      yoe == (doe - doe \div 1460 + doe \div 36524 - doe \div 146096) \div 365
      doy == doe - (365 * yoe + yoe \div 4 - yoe \div 100)
      mp == (5 * doy + 2) \div 153
      d == doy - (153 * mp + 2) \div 5 + 1
      m == IF mp < 10 THEN mp + 3 ELSE mp - 9
      y == yoe + era * 400 + (IF m <= 2 THEN 1 ELSE 0)
  IN <<y, m, d>>

(***************************************************************************)
(* Shard routing (writePoint) and the keys of the range scan.              *)
(***************************************************************************)
\* the file_path writePoint builds for a timestamp
FilePath(t, frame) ==
  <<UTCDay(t), UTCHours(t), IF frame = "minute" THEN UTCMinutes(t) ELSE NoMinute>>

\* #generateDateKey: the date key of a scan cursor
generateDateKey(cur, tzo) == LocalDay(cur, tzo)

\* the <<date, hour, minute>> a scan cursor looks up in the index
CursorKey(cur, frame, tzo) ==
  <<generateDateKey(cur, tzo), UTCHours(cur),
    IF frame = "minute" THEN UTCMinutes(cur) ELSE NoMinute>>

\* #incrementDate: the start of the next bucket
incrementDate(cur, frame) ==
  IF frame = "hour"
    THEN (cur \div SecPerHour) * SecPerHour + SecPerHour
    ELSE (cur \div SecPerMinute) * SecPerMinute + SecPerMinute

(***************************************************************************)
(* JSON text of the index and its checksum.                                *)
(***************************************************************************)
RECURSIVE SumOver(_, _)
\* sum of f[x] over a finite set S of the domain of f
SumOver(f, S) ==
  IF S = {} THEN 0
  ELSE LET x == CHOOSE y \in S : TRUE IN f[x] + SumOver(f, S \ {x})

\* character codes of a number printed with padStart(2, "0")
Pad2Codes(n) == 48 + (n \div 10) + 48 + (n % 10)
\* character codes of a four-digit year
YearCodes(y) ==
  4 * 48 + (y \div 1000) + ((y \div 100) % 10) + ((y \div 10) % 10) + (y % 10)
\* character codes of "YYYY_MM_DD"
DateKeyCodes(day) ==
  LET c == CivilFromDays(day)
  IN YearCodes(c[1]) + 95 + Pad2Codes(c[2]) + 95 + Pad2Codes(c[3])

\* character codes of JSON.stringify(index); a sum, so key order is immaterial
IndexCodes(idx, frame) ==
  LET days == {b[1] : b \in idx}
      hoursOf(d) == {b[2] : b \in {x \in idx : x[1] = d}}
      minsOf(d, h) == {b[3] : b \in {x \in idx : x[1] = d /\ x[2] = h}}
      commas(n) == IF n = 0 THEN 0 ELSE 44 * (n - 1)
      \* "MM":1
      minCodes(d, h) ==
        SumOver([mi \in minsOf(d, h) |-> 34 + Pad2Codes(mi) + 34 + 58 + 49], minsOf(d, h))
          + commas(Cardinality(minsOf(d, h)))
      \* "HH":1  or  "HH":{...}
      hourCodes(d) ==
        SumOver([h \in hoursOf(d) |->
                   34 + Pad2Codes(h) + 34 + 58
                   + (IF frame = "hour" THEN 49 ELSE 123 + minCodes(d, h) + 125)],
                hoursOf(d))
          + commas(Cardinality(hoursOf(d)))
      \* "YYYY_MM_DD":{...}
      dayCodes ==
        SumOver([d \in days |-> 34 + DateKeyCodes(d) + 34 + 58 + 123 + hourCodes(d) + 125], days)
          + commas(Cardinality(days))
  IN 123 + dayCodes + 125

\* #calculateIndexChecksum over the text of an index
calculateIndexChecksum(idx, frame) == IndexCodes(idx, frame) % 65535

(***************************************************************************)
(* State.                                                                  *)
(***************************************************************************)
VARIABLES
  tz,                  \* offset of the host's local time from UTC
  time_frame,          \* #user_options.time_frame
  max_ram,             \* #user_options.max_ram
  autosave_interval,   \* #user_options.autosave_interval, in seconds
  data_in_ram,         \* #data_in_ram: entries [path, pts] in insertion order
  query_cache,         \* #query_cache: cache key -> result
  index,               \* #index: the set of buckets marked present
  cur_index_checksum,  \* #cur_index_checksum
  has_pending_writes,  \* #has_pending_writes
  db_cleared,          \* #db_cleared
  autosave_timeout_id, \* #autosave_timeout_id: "null" or "id"
  timer_pending,       \* the host still holds the autosave callback
  timer_delay,         \* the delay handed to the last setTimeout, in ms
  shards,              \* shard files of the data directory: path -> content
  index_json,          \* <dir>/index.json
  index_backup_json,   \* <dir>/index_backup.json
  backup_file,         \* easy_tsdb_backup.json, where databaseBackup writes by default
  backups_dir_file,    \* easy_tsdb_backups/easy_tsdb_backup.json, which databaseRestore reads
  load_path,           \* what #loadIndex logged: "primary", "backup" or "empty"
  persisted,           \* history: the index #persistIndex wrote last
  accepted,            \* history: points accepted by writePoint since the last
                       \* databaseClear("YES"), in call order
  writes,              \* history: number of writePoint calls
  phase,               \* history: "opened" by the constructor, "closed" by
                       \* databaseClose, "refused" by a clear or restore
                       \* without consent, "running" after any other operation
  damaged,             \* history: index files altered from outside since the close
  purged,              \* history: points a purge was asked to remove
  snapshot,            \* history: the flushed directory and index that the
                       \* last databaseBackup saw: taken for
                       \* ("easy_tsdb_backup.json", true), stored for a backup
                       \* written below easy_tsdb_backups where the restore
                       \* of it is followed
  ret,                 \* history: what the last read operation returned
  queue_arr,           \* asyncQueue.queue_arr: operations not yet started
  is_running,          \* asyncQueue.is_running
  active_ops,          \* asyncQueue.active_ops
  pend_writes_map,     \* AsyncStorage.pend_writes_map: filename -> json
  flight,              \* operations started whose callback has not run, each
                       \* with the locals of its stream between timer callbacks
  next_timers,         \* armed timers of processNext
  files,               \* files of the asynchronous storage: name -> lines
  started,             \* history: ids of the operations in the order they started
  next_id,             \* history: number of operations enqueued
  uncalled,            \* history: WriteJson calls since the last SaveAndQuit
                       \* whose callback has not run
  last_read,           \* history: what the last ReadJson callback received
  saved,               \* history: the count the last SaveAndQuit returned
  removals,            \* RemoveFile calls: the file, whether the timer of the
                       \* call has fired, and (history) whether a WriteJson of
                       \* that file was waiting for its callback at the call
  round_trip,          \* history: the object handed to the round trip
  content_obj,         \* EasyStorageAsync: #content_obj
  is_ready             \* EasyStorageAsync: #is_ready

vars == <<tz, time_frame, max_ram, autosave_interval, timer_delay, data_in_ram, query_cache, index,
          cur_index_checksum, has_pending_writes, db_cleared,
          autosave_timeout_id, timer_pending, shards, index_json,
          index_backup_json, backup_file, backups_dir_file, load_path,
          persisted, accepted, writes, phase, damaged, purged, snapshot, ret,
          queue_arr, is_running, active_ops, pend_writes_map, flight,
          next_timers, files, started, next_id, uncalled, last_read, saved,
          removals, round_trip, content_obj, is_ready>>

(***************************************************************************)
(* Files.                                                                  *)
(***************************************************************************)
\* a directory, an object or a map with no entry
EmptyMap == [x \in {} |-> 0]
\* a shard file holding JSON.stringify(pts)
ShardFile(pts) == [ok |-> TRUE, pts |-> pts]
\* an index file that does not exist
NoFile == [exists |-> FALSE, parses |-> FALSE, index_data |-> {}, index_checksum |-> 0]
\* an index file whose text is not JSON (appended or cut text)
GarbageFile == [exists |-> TRUE, parses |-> FALSE, index_data |-> {}, index_checksum |-> 0]
\* JSON.stringify({ index_data, index_checksum })
Envelope(idx, sum) ==
  [exists |-> TRUE, parses |-> TRUE, index_data |-> idx, index_checksum |-> sum]

(***************************************************************************)
(* The engine and its directory as one value, so that a handler that calls *)
(* another handler composes.                                               *)
(***************************************************************************)
Cur ==
  [data_in_ram |-> data_in_ram, query_cache |-> query_cache, index |-> index,
   cur_index_checksum |-> cur_index_checksum,
   has_pending_writes |-> has_pending_writes, db_cleared |-> db_cleared,
   autosave_timeout_id |-> autosave_timeout_id, timer_pending |-> timer_pending,
   timer_delay |-> timer_delay,
   shards |-> shards, index_json |-> index_json,
   index_backup_json |-> index_backup_json, backup_file |-> backup_file,
   backups_dir_file |-> backups_dir_file, load_path |-> load_path,
   persisted |-> persisted]

Install(s) ==
  /\ data_in_ram' = s.data_in_ram
  /\ query_cache' = s.query_cache
  /\ index' = s.index
  /\ cur_index_checksum' = s.cur_index_checksum
  /\ has_pending_writes' = s.has_pending_writes
  /\ db_cleared' = s.db_cleared
  /\ autosave_timeout_id' = s.autosave_timeout_id
  /\ timer_pending' = s.timer_pending
  /\ timer_delay' = s.timer_delay
  /\ shards' = s.shards
  /\ index_json' = s.index_json
  /\ index_backup_json' = s.index_backup_json
  /\ backup_file' = s.backup_file
  /\ backups_dir_file' = s.backups_dir_file
  /\ load_path' = s.load_path
  /\ persisted' = s.persisted

(***************************************************************************)
(* Index persistence.                                                      *)
(***************************************************************************)
\* a persist that writes index.json and leaves the backup copy alone
persistIndexPrimaryOnly(s, frame) ==
  LET sum == calculateIndexChecksum(s.index, frame)
  IN [s EXCEPT !.index_json = Envelope(s.index, sum),
               !.cur_index_checksum = sum,
               !.persisted = [valid |-> TRUE, index |-> s.index]]

\* #persistIndex: primary, then backup, then remember the checksum
persistIndex(s, frame) ==
  LET sum == calculateIndexChecksum(s.index, frame)
      content == Envelope(s.index, sum)
  IN [s EXCEPT !.index_json = content, !.index_backup_json = content,
               !.cur_index_checksum = sum,
               !.persisted = [valid |-> TRUE, index |-> s.index]]

\* #persistIndexIfNeeded: rewrite only when the live checksum has changed
persistIndexIfNeeded(s, frame) ==
  IF s.cur_index_checksum # calculateIndexChecksum(s.index, frame)
    THEN persistIndex(s, frame)
    ELSE s

\* #tryLoadIndex: the text parses and its checksum matches its payload
tryLoadIndex(file, frame) ==
  /\ file.parses
  /\ calculateIndexChecksum(file.index_data, frame) = file.index_checksum

\* #initializeEmptyIndex
initializeEmptyIndex(s, frame) ==
  [s EXCEPT !.index = {}, !.cur_index_checksum = calculateIndexChecksum({}, frame)]

\* a load that never looks at index_backup.json
loadIndexWithoutBackup(s, frame) ==
  IF s.index_json.exists /\ tryLoadIndex(s.index_json, frame)
    THEN [s EXCEPT !.index = s.index_json.index_data,
                   !.cur_index_checksum = s.index_json.index_checksum,
                   !.load_path = "primary"]
  ELSE persistIndex([initializeEmptyIndex(s, frame) EXCEPT !.load_path = "empty"], frame)

\* #loadIndex: primary, else backup, else an empty index persisted twice
loadIndex(s, frame) ==
  IF s.index_json.exists /\ tryLoadIndex(s.index_json, frame)
    THEN [s EXCEPT !.index = s.index_json.index_data,
                   !.cur_index_checksum = s.index_json.index_checksum,
                   !.load_path = "primary"]
  ELSE IF s.index_backup_json.exists /\ tryLoadIndex(s.index_backup_json, frame)
    THEN [s EXCEPT !.index = s.index_backup_json.index_data,
                   !.cur_index_checksum = s.index_backup_json.index_checksum,
                   !.load_path = "backup"]
  ELSE persistIndex([initializeEmptyIndex(s, frame) EXCEPT !.load_path = "empty"], frame)

\* #updateIndex: mark the bucket of a shard path
updateIndex(idx, path) == idx \cup {path}

(***************************************************************************)
(* RAM buffer.                                                             *)
(***************************************************************************)
NameLen(m) == IF m = "temperature" THEN 11 ELSE 8
\* length of JSON.stringify of one point: {"m":"..","v":1,"t":1710460800000}
PointJsonLen(p) == 6 + NameLen(p.m) + 6 + 1 + 5 + 13 + 1
RECURSIVE PointsJsonLen(_)
PointsJsonLen(pts) ==
  IF pts = <<>> THEN 0
  ELSE PointJsonLen(Head(pts)) + (IF Len(pts) > 1 THEN 1 ELSE 0) + PointsJsonLen(Tail(pts))

RECURSIVE calculateUsageOfRAM(_)
\* #calculateUsageOfRAM: one byte per character of every pending list
calculateUsageOfRAM(ram) ==
  IF ram = <<>> THEN 0
  ELSE 2 + PointsJsonLen(Head(ram).pts) + calculateUsageOfRAM(Tail(ram))

\* position of a path in the buffer, 0 when it has no entry
RamPos(ram, path) ==
  IF \E i \in 1..Len(ram) : ram[i].path = path
    THEN CHOOSE i \in 1..Len(ram) : ram[i].path = path
    ELSE 0

\* the push of writePoint
RamPush(ram, path, p) ==
  LET i == RamPos(ram, path)
  IN IF i = 0 THEN Append(ram, [path |-> path, pts |-> <<p>>])
     ELSE [ram EXCEPT ![i].pts = Append(@, p)]

(***************************************************************************)
(* flush.                                                                  *)
(***************************************************************************)
\* a write that replaces the shard's content by the pending points alone
overwriteDataPoints(old_data_points, new_data_points) == new_data_points

\* a merge that puts the new points in front of those on disk
prependDataPoints(old_data_points, new_data_points) == new_data_points \o old_data_points

\* merged_data_points = old_data_points.concat(new_data_points)
mergeDataPoints(old_data_points, new_data_points) == old_data_points \o new_data_points

RECURSIVE FlushEntries(_, _)
\* the loop of flush over Object.entries(#data_in_ram); a shard whose text
\* is not JSON makes JSON.parse throw and ends the loop
FlushEntries(s, ram) ==
  IF ram = <<>> THEN [st |-> s, threw |-> FALSE]
  ELSE
    LET e == Head(ram)
        has == e.path \in DOMAIN s.shards
    IN IF has /\ ~s.shards[e.path].ok
         THEN [st |-> s, threw |-> TRUE]
         ELSE
           LET old_data_points == IF has THEN s.shards[e.path].pts ELSE <<>>
               merged_data_points == mergeDataPoints(old_data_points, e.pts)
               written == [q \in DOMAIN s.shards \cup {e.path} |->
                             IF q = e.path THEN ShardFile(merged_data_points)
                             ELSE s.shards[q]]
           IN FlushEntries([s EXCEPT !.shards = written,
                                     !.index = updateIndex(s.index, e.path)],
                           Tail(ram))

\* flush(): [st, threw]
flush(s, frame) ==
  IF ~s.has_pending_writes /\ ~s.db_cleared
    THEN [st |-> s, threw |-> FALSE]
    ELSE
      LET r == FlushEntries(s, s.data_in_ram)
      IN IF r.threw THEN r
         ELSE [st |-> [persistIndexIfNeeded(r.st, frame) EXCEPT
                         !.has_pending_writes = FALSE,
                         !.db_cleared = FALSE,
                         !.data_in_ram = <<>>],
               threw |-> FALSE]

\* #resetAutosaveTimeout: replace the armed timer
resetAutosaveTimeout(s) ==
  [s EXCEPT !.autosave_timeout_id = "id", !.timer_pending = TRUE,
            !.timer_delay = DefaultAutosaveInterval * 1000]

\* a writePoint that never looks at the RAM estimate
writePointUnchecked(s, p, frame, ceiling) ==
  [st |-> resetAutosaveTimeout(
            [s EXCEPT !.data_in_ram = RamPush(s.data_in_ram, FilePath(p.t, frame), p),
                      !.has_pending_writes = TRUE]),
   threw |-> FALSE]

\* writePoint(measurement, value, timestamp): [st, threw]
writePoint(s, p, frame, ceiling) ==
  LET pushed == [s EXCEPT !.data_in_ram = RamPush(s.data_in_ram, FilePath(p.t, frame), p),
                          !.has_pending_writes = TRUE]
      armed == resetAutosaveTimeout(pushed)
  IN IF calculateUsageOfRAM(armed.data_in_ram) > ceiling
       THEN flush(armed, frame)
       ELSE [st |-> armed, threw |-> FALSE]

(***************************************************************************)
(* Range scan.                                                             *)
(***************************************************************************)
\* #getDataPointsFromFile: absent or unparsable files give no points
getDataPointsFromFile(s, path) ==
  IF path \notin DOMAIN s.shards THEN <<>>
  ELSE IF ~s.shards[path].ok THEN <<>>
  ELSE s.shards[path].pts

\* length of one bucket of the frame
BucketLen(frame) == IF frame = "hour" THEN SecPerHour ELSE SecPerMinute

\* the value of `current` in the i-th pass of the while loop of
\* #collectDataPointsForRange: the first pass sees the start cursor, every
\* later pass the result of one more #incrementDate, which from an aligned
\* cursor is one bucket further
Cursor(first, i, frame) ==
  IF i = 1 THEN first
  ELSE incrementDate(first, frame) + (i - 2) * BucketLen(frame)

\* number of passes of `while (current <= end)`
Passes(first, end, frame) ==
  IF first > end THEN 0
  ELSE IF incrementDate(first, frame) > end THEN 1
  ELSE 2 + (end - incrementDate(first, frame)) \div BucketLen(frame)

RECURSIVE ReadHits(_, _, _, _, _, _)
\* the passes whose bucket the index marks, each adding its file's points
ReadHits(s, hits, k, first, frame, tzo) ==
  IF k > Len(hits) THEN <<>>
  ELSE getDataPointsFromFile(s, CursorKey(Cursor(first, hits[k], frame), frame, tzo))
         \o ReadHits(s, hits, k + 1, first, frame, tzo)

\* #collectDataPointsForRange: the cursor starts one day before start_time
collectDataPointsForRange(s, start_time, end_time, frame, tzo) ==
  LET first == start_time - SecPerDay
      InIndex(i) == CursorKey(Cursor(first, i, frame), frame, tzo) \in s.index
      hits == SelectSeq([i \in 1..Passes(first, end_time, frame) |-> i], InIndex)
  IN ReadHits(s, hits, 1, first, frame, tzo)

\* retrieveDataSeries: the scanned points under their long names
retrieveDataSeries(s, start_time, end_time, frame, tzo) ==
  LET data_points == collectDataPointsForRange(s, start_time, end_time, frame, tzo)
  IN [i \in 1..Len(data_points) |->
        [timestamp |-> data_points[i].t, value |-> data_points[i].v,
         measurement |-> data_points[i].m]]

(***************************************************************************)
(* Aggregation.  A result is undefined, a number, a list or a thrown       *)
(* error.                                                                  *)
(***************************************************************************)
Undefined == [kind |-> "undefined", num |-> 0, list |-> <<>>]
Number(n) == [kind |-> "number", num |-> n, list |-> <<>>]
List(l) == [kind |-> "list", num |-> 0, list |-> l]
Throws == [kind |-> "throws", num |-> 0, list |-> <<>>]

RECURSIVE SumV(_)
SumV(pts) == IF pts = <<>> THEN 0 ELSE Head(pts).v + SumV(Tail(pts))
MaxV(pts) == CHOOSE x \in {pts[i].v : i \in 1..Len(pts)} :
               \A j \in 1..Len(pts) : pts[j].v <= x
MinV(pts) == CHOOSE x \in {pts[i].v : i \in 1..Len(pts)} :
               \A j \in 1..Len(pts) : pts[j].v >= x

\* #performBuiltInAggregation, for the keys with whole-number results
performBuiltInAggregation(data_points, aggregation_type) ==
  IF Len(data_points) = 0 THEN Undefined
  ELSE CASE aggregation_type = "raw" -> List(data_points)
         [] aggregation_type = "sum" -> Number(SumV(data_points))
         [] aggregation_type = "min" -> Number(MinV(data_points))
         [] aggregation_type = "max" -> Number(MaxV(data_points))
         [] aggregation_type = "count" -> Number(Len(data_points))
         [] aggregation_type = "first" -> Number(data_points[1].v)
         [] aggregation_type = "last" -> Number(data_points[Len(data_points)].v)
         [] aggregation_type = "range" -> Number(MaxV(data_points) - MinV(data_points))
         [] OTHER -> Throws

\* caller-supplied reducers: one that filters the points it is handed by
\* their field m and sums the values of the temperature points
Reducers == {"null", "temperatureSum"}
IsTemperature(p) == p.m = "temperature"
ApplyReducer(cb, data_points) ==
  Number(SumV(SelectSeq(data_points, IsTemperature)))

\* what query computes when its cache has no usable entry
Aggregate(data_points, aggregation_type, cb_custom_aggregator) ==
  IF cb_custom_aggregator # "null"
    THEN ApplyReducer(cb_custom_aggregator, data_points)
    ELSE performBuiltInAggregation(data_points, aggregation_type)

\* the truthiness test of `if (this.#query_cache[cache_key])`
Truthy(r) == r.kind = "list" \/ (r.kind = "number" /\ r.num # 0)

\* the cache key of query
CacheKey(start_time, end_time, aggregation_type) ==
  <<start_time, end_time, aggregation_type>>

\* query(start, end, aggregation_type, cb): [st, result]
query(s, start_time, end_time, aggregation_type, cb, frame, tzo) ==
  LET cache_key == CacheKey(start_time, end_time, aggregation_type)
  IN IF cache_key \in DOMAIN s.query_cache /\ Truthy(s.query_cache[cache_key])
       THEN [st |-> s, result |-> s.query_cache[cache_key]]
       ELSE
         LET data_points == collectDataPointsForRange(s, start_time, end_time, frame, tzo)
             result == Aggregate(data_points, aggregation_type, cb)
         IN IF result.kind = "throws"
              THEN [st |-> s, result |-> result]
              ELSE [st |-> [s EXCEPT !.query_cache =
                              [k \in DOMAIN s.query_cache \cup {cache_key} |->
                                 IF k = cache_key THEN result ELSE s.query_cache[k]]],
                    result |-> result]

(***************************************************************************)
(* Maintenance.                                                            *)
(***************************************************************************)
\* purge(older_than): drop every indexed date that starts before the threshold
purge(s, older_than, frame) ==
  LET dropped == {b \in s.index : b[1] * SecPerDay < older_than}
      kept == DOMAIN s.shards \ dropped
      after == [s EXCEPT !.shards = [q \in kept |-> s.shards[q]],
                         !.index = s.index \ dropped]
  IN IF dropped # {} THEN persistIndex(after, frame) ELSE after

\* databaseClear past its consent test
ClearedState(s) ==
       [s EXCEPT !.autosave_timeout_id = "null",
                 !.timer_pending = IF s.autosave_timeout_id # "null" THEN FALSE ELSE @,
                 !.shards = EmptyMap,
                 !.index_json = NoFile,
                 !.index_backup_json = NoFile,
                 !.persisted = [valid |-> FALSE, index |-> {}],
                 !.data_in_ram = <<>>,
                 !.index = {},
                 !.query_cache = EmptyMap,
                 !.db_cleared = TRUE,
                 !.has_pending_writes = FALSE]

\* a clear that leaves the shard files and their index entries alone
databaseClearKeepingShards(s, consent) ==
  IF consent # "YES" THEN s
  ELSE [ClearedState(s) EXCEPT !.shards = s.shards, !.index = s.index]

\* a clear that does not ask for consent
databaseClearUnasked(s, consent) == ClearedState(s)

\* databaseClear(consent)
databaseClear(s, consent) ==
  IF consent # "YES" THEN s ELSE ClearedState(s)

\* databaseClose(): [st, threw]
databaseClose(s, frame) ==
  LET f == IF s.has_pending_writes \/ s.db_cleared
             THEN flush(s, frame) ELSE [st |-> s, threw |-> FALSE]
  IN IF f.threw THEN f
     ELSE [st |-> persistIndexIfNeeded(
                    [f.st EXCEPT !.timer_pending =
                       IF f.st.autosave_timeout_id # "null" THEN FALSE ELSE @], frame),
           threw |-> FALSE]

\* a timer callback that flushes nothing
autosaveCallbackWithoutFlush(s, frame) == [s EXCEPT !.timer_pending = FALSE]

\* the callback armed by #resetAutosaveTimeout
autosaveCallback(s, frame) ==
  LET fired == [s EXCEPT !.timer_pending = FALSE]
  IN IF fired.has_pending_writes \/ fired.db_cleared
       THEN LET f == flush(fired, frame)
            IN IF f.threw THEN f.st
               ELSE persistIndexIfNeeded([f.st EXCEPT !.db_cleared = FALSE], frame)
       ELSE fired

\* constructor: a new instance over the files that are there
constructor(s, frame) ==
  loadIndex([s EXCEPT !.data_in_ram = <<>>, !.query_cache = EmptyMap, !.index = {},
                      !.cur_index_checksum = 0 - 1,
                      !.has_pending_writes = FALSE, !.db_cleared = FALSE,
                      !.autosave_timeout_id = "null"], frame)

(***************************************************************************)
(* Backup and restore.  databaseBackup(backup_path) writes backup_path but *)
(* reads every shard at easy_tsdb_backups/<backup_path>; databaseRestore   *)
(* reads and writes easy_tsdb_backups/<backup_path>.                       *)
(***************************************************************************)
DefaultBackupPath == "easy_tsdb_backup.json"
InBackupsDir == "easy_tsdb_backups/easy_tsdb_backup.json"
BackupPaths == {DefaultBackupPath, InBackupsDir}

NoBackup ==
  [exists |-> FALSE, form |-> "backup", has_index |-> FALSE, index |-> {},
   data_points |-> EmptyMap]
\* what a file put below easy_tsdb_backups from outside holds: text that is
\* not JSON, or a backup object without data_points
Malformed == {"garbage", "no_data_points"}
MalformedBackup(form) == [NoBackup EXCEPT !.exists = TRUE, !.form = form]

\* databaseBackup(backup_path, include_index)
databaseBackup(s, backup_path, include_index) ==
  LET \* the file at full_path; nothing ever writes below easy_tsdb_backups/easy_tsdb_backups
      at_full_path == IF backup_path = DefaultBackupPath THEN s.backups_dir_file ELSE NoBackup
      data_points == IF at_full_path.exists
                       THEN [f \in DOMAIN s.shards |-> at_full_path]
                       ELSE EmptyMap
      backup == [exists |-> TRUE, form |-> "backup", has_index |-> include_index,
                 index |-> IF include_index THEN s.index ELSE {},
                 data_points |-> data_points]
  IN IF backup_path = DefaultBackupPath
       THEN [s EXCEPT !.backup_file = backup]
       ELSE [s EXCEPT !.backups_dir_file = backup]

\* #rebuildIndex: [st, threw]; the loop body names an undefined variable
rebuildIndex(s) ==
  [st |-> [s EXCEPT !.index = {}], threw |-> DOMAIN s.shards # {}]

\* databaseRestore(consent, "easy_tsdb_backup.json", recalculate_index)
databaseRestore(s, consent, recalculate_index) ==
  IF consent # "YES" THEN s
  ELSE IF ~s.backups_dir_file.exists THEN s \* JSON.parse("") throws, caught
  ELSE IF s.backups_dir_file.form = "garbage" THEN s \* JSON.parse throws, caught
  \* Object.entries(undefined) throws, caught, once databaseClear has run
  ELSE IF s.backups_dir_file.form = "no_data_points" THEN databaseClear(s, "YES")
  ELSE
    LET backup == s.backups_dir_file
        cleared == databaseClear(s, "YES")
        \* every data_points entry is written over the backup file itself
        written == IF DOMAIN backup.data_points = {} THEN cleared
                   ELSE [cleared EXCEPT !.backups_dir_file =
                           backup.data_points[CHOOSE f \in DOMAIN backup.data_points : TRUE]]
    IN IF backup.has_index /\ ~recalculate_index
         THEN [written EXCEPT !.index = backup.index]
         ELSE rebuildIndex(written).st

(***************************************************************************)
(* Damage to an index file from outside the engine.                        *)
(***************************************************************************)
DamageKinds == {"append", "remove", "transpose"}
\* two characters of the payload change places: the hour "23" reads "32"
Transposed(idx) == {<<b[1], (b[2] % 10) * 10 + b[2] \div 10, b[3]>> : b \in idx}
Damaged(file, how) ==
  CASE how = "remove" -> NoFile
    [] how = "append" -> IF file.exists THEN GarbageFile ELSE NoFile
    [] how = "transpose" ->
         IF file.exists /\ file.parses
           THEN [file EXCEPT !.index_data = Transposed(file.index_data)]
           ELSE file

(***************************************************************************)
(* The asynchronous storage: JSON values, the tokenizer and the streaming  *)
(* encoder and decoder.                                                    *)
(*                                                                         *)
(* A JSON value is a tagged record; an object is the sequence of its       *)
(* fields in insertion order, which is the order of Object.keys and of     *)
(* for-in.  A file is a sequence of lines, each line one object.           *)
(***************************************************************************)
JUndefined == [tag |-> "undefined", n |-> 0, s |-> "", items |-> <<>>]
JNum(n) == [tag |-> "number", n |-> n, s |-> "", items |-> <<>>]
JStr(s) == [tag |-> "string", n |-> 0, s |-> s, items |-> <<>>]
JArr(items) == [tag |-> "array", n |-> 0, s |-> "", items |-> items]
JObj(fields) == [tag |-> "object", n |-> 0, s |-> "", items |-> fields]

Field(k, v) == [k |-> k, v |-> v]
\* Object.keys(o)
ObjectKeys(o) == [i \in 1..Len(o) |-> o[i].k]
\* o has an own property key
HasOwn(o, key) == \E i \in 1..Len(o) : o[i].k = key
\* o[key]
Get(o, key) ==
  IF HasOwn(o, key) THEN o[CHOOSE i \in 1..Len(o) : o[i].k = key].v ELSE JUndefined
\* o[key] = val: an own property keeps its place, a new one goes last
Put(o, key, val) ==
  IF HasOwn(o, key)
    THEN [i \in 1..Len(o) |-> IF o[i].k = key THEN Field(key, val) ELSE o[i]]
    ELSE Append(o, Field(key, val))
\* delete o[key]
Delete(o, key) == SelectSeq(o, LAMBDA f : f.k # key)

\* the tokenizer tables
RESERVED_MSET == {"type", "__arrays", "data", "meta", "T", "A", "D", "M"}
\* a property every object literal inherits from Object.prototype
ObjectPrototypeNames == {"constructor"}
\* REV[k] || k
REV(k) ==
  CASE k = "type" -> "T"
    [] k = "__arrays" -> "A"
    [] k = "data" -> "D"
    [] k = "meta" -> "M"
    [] OTHER -> k
\* TOK[k], or k where the table has no entry
TOK(k) ==
  CASE k = "T" -> "type"
    [] k = "A" -> "__arrays"
    [] k = "D" -> "data"
    [] k = "M" -> "meta"
    [] OTHER -> k

\* nd_tokenEncode(rec) before JSON.stringify; also the out_meta loop
nd_tokenEncode(rec) ==
  LET out[i \in 0..Len(rec)] ==
        IF i = 0 THEN <<>> ELSE Put(out[i - 1], REV(rec[i].k), rec[i].v)
  IN out[Len(rec)]

\* nd_tokenDecode(obj)
nd_tokenDecode(obj) ==
  LET ks == ObjectKeys(obj)
      dec[i \in 0..Len(ks)] ==
        IF i = 0 THEN obj
        ELSE IF TOK(ks[i]) # ks[i]
          THEN Delete(Put(dec[i - 1], TOK(ks[i]), Get(dec[i - 1], ks[i])), ks[i])
          ELSE dec[i - 1]
  IN dec[Len(ks)]

\* safeCopyToMetadata(metadata, key, val, arr_data): [metadata, arr_data].
\* `key in RESERVED_MSET` is true of inherited properties too.
safeCopyToMetadata(metadata, key, val, arr_data) ==
  IF key \in RESERVED_MSET \/ key \in ObjectPrototypeNames
    THEN LET u == IF HasOwn(metadata, "_u") THEN Get(metadata, "_u").items ELSE <<>>
         IN [metadata |-> Put(metadata, "_u", JObj(Put(u, key, val))),
             arr_data |-> arr_data]
  ELSE IF val.tag = "array" /\ Len(val.items) > 0
    THEN LET counted == Put(metadata, key, JNum(Len(val.items)))
             listed == IF HasOwn(counted, "__arrays")
                         THEN Get(counted, "__arrays").items ELSE <<>>
         IN [metadata |-> Put(counted, "__arrays", JArr(Append(listed, JStr(key)))),
             arr_data |-> Put(arr_data, key, val)]
  ELSE [metadata |-> Put(metadata, key, val), arr_data |-> arr_data]

(***************************************************************************)
(* Files of the asynchronous storage.                                      *)
(***************************************************************************)
Files == {"a.json", "b.json"}
NoLines == [exists |-> FALSE, lines |-> <<>>]
\* openFile(file, O_WRONLY | O_CREAT | O_TRUNC)
Truncated == [exists |-> TRUE, lines |-> <<>>]
\* writeFile(fname, JSON.stringify(data)): one line holding the object
JsonFile(data) == [exists |-> TRUE, lines |-> <<data>>]
\* writeSync({ fd, buffer }) of whole lines
writeSync(file, block) == [exists |-> TRUE, lines |-> file.lines \o block]

(***************************************************************************)
(* Jobs.  A job is the closure WriteJson or ReadJson enqueued; once        *)
(* started it carries the locals of nd_streamJsonWrite / buildItemsAsync   *)
(* or of nd_streamJsonRead / nd_parseJsonAsync between timer callbacks.    *)
(***************************************************************************)
Operation(id, kind, file, json, by) ==
  [id |-> id, kind |-> kind, file |-> file, json |-> json, by |-> by,
   stage |-> "armed", fd |-> "fd", key_index |-> 0,
   metadata |-> <<Field("type", JStr("meta"))>>, arr_data |-> <<>>,
   k |-> 0, i |-> 0, lines |-> <<>>, idx |-> 0, res |-> <<>>, arr_cache |-> <<>>,
   linked |-> {}]

\* processMetadataChunk: n keys copied in this slice
processMetadataChunk(j, n) ==
  LET data_keys == ObjectKeys(j.json)
      last == IF j.key_index + n < Len(data_keys) THEN j.key_index + n ELSE Len(data_keys)
      copy[x \in j.key_index..last] ==
        IF x = j.key_index THEN [metadata |-> j.metadata, arr_data |-> j.arr_data]
        ELSE safeCopyToMetadata(copy[x - 1].metadata, data_keys[x],
                                Get(j.json, data_keys[x]), copy[x - 1].arr_data)
  IN [j EXCEPT !.key_index = last,
               !.metadata = copy[last].metadata,
               !.arr_data = copy[last].arr_data,
               !.stage = IF last < Len(data_keys) THEN "meta" ELSE "metaline"]

\* pump of buildItemsAsync: [job, block] after n turns of its loop
RECURSIVE pump(_, _, _)
pump(j, block, n) ==
  LET keys == ObjectKeys(j.arr_data)
  IN IF n = 0 \/ j.k >= Len(keys) THEN [job |-> j, block |-> block]
     ELSE LET key == keys[j.k + 1]
              arr == Get(j.arr_data, key).items
          IN IF j.i < Len(arr)
               THEN pump([j EXCEPT !.i = @ + 1],
                         Append(block, nd_tokenEncode(<<Field("type", JStr(key)),
                                                        Field("data", arr[j.i + 1])>>)),
                         n - 1)
               ELSE pump([j EXCEPT !.k = @ + 1, !.i = 0], block, n - 1)

\* one line of parseSlice.  arr_cache holds the arrays being filled; linked
\* names the fields of res that are the very array arr_cache holds.
parseLine(j, txt) ==
  LET obj == nd_tokenDecode(txt)
  IN IF Get(obj, "type") = JStr("meta")
       THEN LET af == IF HasOwn(obj, "__arrays") THEN Get(obj, "__arrays").items ELSE <<>>
                lookup == {af[x].s : x \in 1..Len(af)}
                ks == SelectSeq(ObjectKeys(obj), LAMBDA key : key \notin {"type", "__arrays"})
                fill[x \in 0..Len(ks)] ==
                  IF x = 0 THEN [res |-> j.res, arr_cache |-> j.arr_cache, linked |-> j.linked]
                  ELSE IF ks[x] \in lookup
                    THEN [res |-> Put(fill[x - 1].res, ks[x], JArr(<<>>)),
                          arr_cache |-> Put(fill[x - 1].arr_cache, ks[x], JArr(<<>>)),
                          linked |-> fill[x - 1].linked \cup {ks[x]}]
                    ELSE [res |-> Put(fill[x - 1].res, ks[x], Get(obj, ks[x])),
                          arr_cache |-> fill[x - 1].arr_cache,
                          linked |-> fill[x - 1].linked \ {ks[x]}]
            IN [j EXCEPT !.res = fill[Len(ks)].res,
                         !.arr_cache = fill[Len(ks)].arr_cache,
                         !.linked = fill[Len(ks)].linked]
       ELSE LET akey == Get(obj, "type").s
                cached == HasOwn(j.arr_cache, akey)
                cache == IF cached THEN j.arr_cache ELSE Put(j.arr_cache, akey, JArr(<<>>))
                linked == IF cached THEN j.linked ELSE j.linked \cup {akey}
                res == IF cached THEN j.res ELSE Put(j.res, akey, JArr(<<>>))
                pushed == JArr(Append(Get(cache, akey).items, Get(obj, "data")))
            IN [j EXCEPT !.res = IF akey \in linked THEN Put(res, akey, pushed) ELSE res,
                         !.arr_cache = Put(cache, akey, pushed),
                         !.linked = linked]

\* parseSlice of nd_parseJsonAsync: n lines parsed in this slice
RECURSIVE parseSlice(_, _)
parseSlice(j, n) ==
  IF n = 0 \/ j.idx >= Len(j.lines) THEN j
  ELSE parseSlice(parseLine([j EXCEPT !.idx = @ + 1], j.lines[j.idx + 1]), n - 1)

(***************************************************************************)
(* The operation queue and AsyncStorage as one value.                      *)
(***************************************************************************)
AsyncCur ==
  [queue_arr |-> queue_arr, is_running |-> is_running, active_ops |-> active_ops,
   pend_writes_map |-> pend_writes_map, flight |-> flight,
   next_timers |-> next_timers, files |-> files, started |-> started,
   next_id |-> next_id, uncalled |-> uncalled, last_read |-> last_read,
   saved |-> saved, removals |-> removals]

InstallAsync(a) ==
  /\ queue_arr' = a.queue_arr
  /\ is_running' = a.is_running
  /\ active_ops' = a.active_ops
  /\ pend_writes_map' = a.pend_writes_map
  /\ flight' = a.flight
  /\ next_timers' = a.next_timers
  /\ files' = a.files
  /\ started' = a.started
  /\ next_id' = a.next_id
  /\ uncalled' = a.uncalled
  /\ last_read' = a.last_read
  /\ saved' = a.saved
  /\ removals' = a.removals

NoRead == [id |-> 0, file |-> "", err |-> FALSE, data |-> <<>>]

\* the module as loaded: asyncQueue = new AsyncOperationQueue()
AsyncBlank ==
  [queue_arr |-> <<>>, is_running |-> FALSE, active_ops |-> 0,
   pend_writes_map |-> EmptyMap, flight |-> {}, next_timers |-> 0,
   files |-> [f \in Files |-> NoLines], started |-> <<>>, next_id |-> 0,
   uncalled |-> {}, last_read |-> NoRead, saved |-> 0, removals |-> {}]

\* op(continuation): the closure calls nd_streamJsonWrite, which counts the
\* operation and arms its first timer, or nd_streamJsonRead, which arms one
invoke(a, op) ==
  [a EXCEPT !.flight = @ \cup {op},
            !.active_ops = IF op.kind = "write" THEN @ + 1 ELSE @,
            !.started = Append(@, op.id)]

\* a processNext that takes the newest operation of the queue
processNextFromTail(a) ==
  IF a.queue_arr = <<>> THEN [a EXCEPT !.is_running = FALSE]
  ELSE invoke([a EXCEPT !.queue_arr = SubSeq(@, 1, Len(@) - 1)],
              a.queue_arr[Len(a.queue_arr)])

\* AsyncOperationQueue.processNext
processNext(a) ==
  IF a.queue_arr = <<>> THEN [a EXCEPT !.is_running = FALSE]
  ELSE invoke([a EXCEPT !.queue_arr = Tail(@)], Head(a.queue_arr))

\* AsyncOperationQueue.process
process(a) ==
  IF a.is_running \/ a.queue_arr = <<>> THEN a
  ELSE processNext([a EXCEPT !.is_running = TRUE])

\* AsyncOperationQueue.enqueue
enqueue(a, operation) == process([a EXCEPT !.queue_arr = Append(@, operation)])

\* AsyncOperationQueue.emergencyStop
emergencyStop(a) == [a EXCEPT !.queue_arr = <<>>, !.is_running = FALSE]

\* AsyncOperationQueue.reset
reset(a) == [a EXCEPT !.queue_arr = <<>>, !.is_running = FALSE, !.active_ops = 0]

\* AsyncStorage.WriteJson(filename, json, callback)
WriteJson(a, filename, json) ==
  LET id == a.next_id + 1
      noted == [a EXCEPT !.pend_writes_map =
                           [f \in DOMAIN a.pend_writes_map \cup {filename} |->
                              IF f = filename THEN json ELSE a.pend_writes_map[f]],
                         !.next_id = id,
                         !.uncalled = @ \cup {[id |-> id, file |-> filename, json |-> json]}]
  IN enqueue(noted, Operation(id, "write", filename, json, 0))

\* AsyncStorage.ReadJson(filename, callback), called by the application
\* (by = 0) or from the callback of the operation by
ReadJson(a, filename, by) ==
  enqueue([a EXCEPT !.next_id = @ + 1],
          Operation(a.next_id + 1, "read", filename, <<>>, by))

\* what a caller's callback does: nothing, or read the file back as
\* performAsyncOp does
Callbacks == {"return", "ReadJson"}

\* the callback WriteJson / ReadJson hand to the stream: forget the pending
\* write, call the caller's callback, then the continuation of processNext,
\* which arms the timer of the next processNext
complete(a, j, err, data, callback) ==
  LET done == [a EXCEPT !.flight = {x \in @ : x.id # j.id},
                        !.pend_writes_map =
                          IF j.kind = "write"
                            THEN [f \in DOMAIN a.pend_writes_map \ {j.file} |->
                                    a.pend_writes_map[f]]
                            ELSE @,
                        !.uncalled = {c \in @ : c.id # j.id},
                        !.last_read =
                          IF j.kind = "read"
                            THEN [id |-> j.id, file |-> j.file, err |-> err, data |-> data]
                            ELSE @]
      called == IF callback = "ReadJson" THEN ReadJson(done, j.file, j.id) ELSE done
  IN [called EXCEPT !.next_timers = @ + 1]

\* slice limits of the source
MetaChunk == 3
ParseChunk == 5
AtMost(n, limit) == IF n < limit THEN n ELSE limit

\* nd_parseJsonAsync / parseSlice, then the callback once the lines are done
parse(a, j, n, callback) ==
  LET p == parseSlice(j, AtMost(n, ParseChunk))
  IN IF p.idx < Len(p.lines)
       THEN [a EXCEPT !.flight = {x \in @ : x.id # j.id} \cup {p}]
       ELSE complete(a, j, FALSE, p.res, callback)

\* one timer callback of the started operation j; n bounds the turns its
\* clock allows the loop of the slice
timerSlice(a, j, n, callback) ==
  LET others == {x \in a.flight : x.id # j.id}
  IN CASE j.kind = "write" /\ j.stage = "armed" ->
            [a EXCEPT !.files[j.file] = Truncated,
                      !.flight = others \cup {processMetadataChunk(j, AtMost(n, MetaChunk))}]
       [] j.kind = "write" /\ j.stage = "meta" ->
            [a EXCEPT !.flight = others \cup {processMetadataChunk(j, AtMost(n, MetaChunk))}]
       [] j.kind = "write" /\ j.stage = "metaline" ->
            [a EXCEPT !.files[j.file] = IF j.fd = "null" THEN @
                                        ELSE writeSync(@, <<nd_tokenEncode(j.metadata)>>),
                      !.flight = others \cup {[j EXCEPT !.stage = "items"]}]
       [] j.kind = "write" /\ j.stage = "items" ->
            LET p == pump(j, <<>>, n)
                written == [a EXCEPT !.files[j.file] =
                                       IF p.block = <<>> \/ j.fd = "null" THEN @
                                       ELSE writeSync(@, p.block)]
            IN IF p.job.k < Len(ObjectKeys(j.arr_data))
                 THEN [written EXCEPT !.flight = others \cup {p.job}]
                 ELSE complete([written EXCEPT !.active_ops = @ - 1],
                               j, FALSE, <<>>, callback)
       [] j.kind = "read" /\ j.stage = "armed" ->
            LET cont == a.files[j.file]
            IN IF cont.lines = <<>> THEN complete(a, j, TRUE, <<>>, callback)
               ELSE IF Get(nd_tokenDecode(cont.lines[1]), "type") = JStr("meta")
                 THEN parse(a, [j EXCEPT !.lines = cont.lines, !.stage = "parse"],
                            n, callback)
               ELSE IF Len(cont.lines) = 1
                 THEN complete(a, j, FALSE, cont.lines[1], callback)
               ELSE complete(a, j, TRUE, <<>>, callback)
       [] j.kind = "read" /\ j.stage = "parse" -> parse(a, j, n, callback)

\* the first timer callback of the write j where openFile returns null: it
\* logs the failure instead of throwing, so the catch of nd_streamJsonWrite
\* is not entered and the stream goes on without a descriptor
openFails(a, j, n) ==
  [a EXCEPT !.flight = {x \in @ : x.id # j.id}
                         \cup {[processMetadataChunk(j, AtMost(n, MetaChunk)) EXCEPT !.fd = "null"]}]

\* a timer callback of the write j that throws in writeSync or closeSync:
\* it arms no further timer and calls neither endOperation nor the callback
sliceThrows(a, j) ==
  [a EXCEPT !.flight = {x \in @ : x.id # j.id} \cup {[j EXCEPT !.stage = "dead"]}]

\* AsyncStorage.RemoveFile(filename, callback): arms a timer of 0 ms and
\* returns; the queue is not involved
RemoveFile(a, filename) ==
  [a EXCEPT !.removals =
     @ \cup {[file |-> filename, fired |-> FALSE,
              pending |-> \E c \in a.uncalled : c.file = filename]}]

\* what a host makes of the descriptor a stream holds on a file that is
\* removed: later writes go to the name again, or to the removed file
Descriptors == {"fd", "null"}

\* the timer of the RemoveFile call r fires: removeFile(filename)
removeTimer(a, r, kept) ==
  [a EXCEPT !.files[r.file] = NoLines,
            !.flight = {IF j.kind = "write" /\ j.file = r.file /\ j.stage # "armed"
                          THEN [j EXCEPT !.fd = IF @ = "fd" THEN kept ELSE @]
                          ELSE j : j \in @},
            !.removals = (@ \ {r}) \cup {[r EXCEPT !.fired = TRUE]}]

\* AsyncStorage.SaveAndQuit
SaveAndQuit(a) ==
  LET names == DOMAIN a.pend_writes_map
  IN reset([a EXCEPT !.files = [f \in Files |->
                                  IF f \in names THEN JsonFile(a.pend_writes_map[f])
                                  ELSE a.files[f]],
                     !.saved = Cardinality(names),
                     !.pend_writes_map = EmptyMap,
                     !.uncalled = {}])

(***************************************************************************)
(* Initial state: the constructor has run over an empty directory.         *)
(***************************************************************************)
Blank ==
  [data_in_ram |-> <<>>, query_cache |-> EmptyMap, index |-> {},
   cur_index_checksum |-> 0 - 1, has_pending_writes |-> FALSE,
   db_cleared |-> FALSE, autosave_timeout_id |-> "null", timer_pending |-> FALSE,
   timer_delay |-> 0,
   shards |-> EmptyMap, index_json |-> NoFile, index_backup_json |-> NoFile,
   backup_file |-> NoBackup, backups_dir_file |-> NoBackup, load_path |-> "none",
   persisted |-> [valid |-> FALSE, index |-> {}]]

NoSnapshot == [taken |-> FALSE, stored |-> FALSE, shards |-> EmptyMap, index |-> {}]

NoRet == [op |-> "none", start |-> 0, end |-> 0, aggregation_type |-> "", cb |-> "null",
          result |-> Undefined, scanned |-> <<>>]

\* new EasyTSDB({ ..., autosave_interval: interval }) over an empty directory
Construct(interval) ==
  /\ autosave_interval = interval
  /\ \E c \in Configurations : tz = c[1] /\ time_frame = c[2] /\ max_ram = c[3]
  /\ \E s \in {constructor(Blank, time_frame)} :
       /\ data_in_ram = s.data_in_ram
       /\ query_cache = s.query_cache
       /\ index = s.index
       /\ cur_index_checksum = s.cur_index_checksum
       /\ has_pending_writes = s.has_pending_writes
       /\ db_cleared = s.db_cleared
       /\ autosave_timeout_id = s.autosave_timeout_id
       /\ timer_pending = s.timer_pending
       /\ timer_delay = s.timer_delay
       /\ shards = s.shards
       /\ index_json = s.index_json
       /\ index_backup_json = s.index_backup_json
       /\ backup_file = s.backup_file
       /\ backups_dir_file = s.backups_dir_file
       /\ load_path = s.load_path
       /\ persisted = s.persisted
  /\ accepted = <<>>
  /\ writes = 0
  /\ phase = "opened"
  /\ damaged = {}
  /\ purged = {}
  /\ snapshot = NoSnapshot
  /\ ret = NoRet
  /\ queue_arr = AsyncBlank.queue_arr
  /\ is_running = AsyncBlank.is_running
  /\ active_ops = AsyncBlank.active_ops
  /\ pend_writes_map = AsyncBlank.pend_writes_map
  /\ flight = AsyncBlank.flight
  /\ next_timers = AsyncBlank.next_timers
  /\ files = AsyncBlank.files
  /\ started = AsyncBlank.started
  /\ next_id = AsyncBlank.next_id
  /\ uncalled = AsyncBlank.uncalled
  /\ last_read = AsyncBlank.last_read
  /\ saved = AsyncBlank.saved
  /\ removals = AsyncBlank.removals
  /\ round_trip = <<>>
  /\ content_obj = JObj(<<>>)
  /\ is_ready = FALSE

\* new EasyTSDB(options) with no autosave_interval among the options
Init == Construct(DefaultAutosaveInterval)

(***************************************************************************)
(* Operations.                                                             *)
(***************************************************************************)
Ranges == {<<TA, TA>>, <<TB, TB>>, <<TA, TC>>}
QueryRanges == {<<TB, TB>>, <<TA, TC>>}
QueryKeys == {"sum", "max"}
Thresholds == Timestamps
Consents == {"YES", "NO", "yes"}

Config == UNCHANGED <<tz, time_frame, max_ram, autosave_interval>>
\* the engine's operations do not touch the asynchronous storage
AsyncIdle ==
  UNCHANGED <<queue_arr, is_running, active_ops, pend_writes_map, flight,
              next_timers, files, started, next_id, uncalled, last_read, saved,
          removals, round_trip, content_obj, is_ready>>
\* the asynchronous storage does not touch the engine
EngineIdle ==
  UNCHANGED <<tz, time_frame, max_ram, autosave_interval, timer_delay, data_in_ram, query_cache, index,
              cur_index_checksum, has_pending_writes, db_cleared,
              autosave_timeout_id, timer_pending, shards, index_json,
              index_backup_json, backup_file, backups_dir_file, load_path,
              persisted, accepted, writes, phase, damaged, purged, snapshot, ret>>
Running ==
  /\ phase' = "running"
  /\ damaged' = {}

WritePoint(p) ==
  /\ writes < MaxWrites
  /\ Install(writePoint(Cur, p, time_frame, max_ram).st)
  /\ accepted' = Append(accepted, p)
  /\ purged' = purged \ {p}
  /\ writes' = writes + 1
  /\ ret' = NoRet
  /\ Running
  /\ Config
  /\ AsyncIdle
  /\ UNCHANGED snapshot

Flush ==
  /\ Install(flush(Cur, time_frame).st)
  /\ Running
  /\ ret' = NoRet
  /\ UNCHANGED <<accepted, purged, writes>>
  /\ Config
  /\ AsyncIdle
  /\ UNCHANGED snapshot

AutosaveFire ==
  /\ timer_pending
  /\ Install(autosaveCallback(Cur, time_frame))
  /\ Running
  /\ ret' = NoRet
  /\ UNCHANGED <<accepted, purged, writes>>
  /\ Config
  /\ AsyncIdle
  /\ UNCHANGED snapshot

DatabaseClose ==
  /\ Install(databaseClose(Cur, time_frame).st)
  /\ phase' = "closed"
  /\ damaged' = {}
  /\ ret' = NoRet
  /\ UNCHANGED <<accepted, purged, writes>>
  /\ Config
  /\ AsyncIdle
  /\ UNCHANGED snapshot

Query(start_time, end_time, aggregation_type, cb) ==
  LET key == CacheKey(start_time, end_time, aggregation_type)
      q == query(Cur, start_time, end_time, aggregation_type, cb, time_frame, tz)
  IN /\ key \in DOMAIN query_cache \/ Cardinality(DOMAIN query_cache) < MaxQueries
     /\ Install(q.st)
     /\ ret' = [op |-> "query", start |-> start_time, end |-> end_time,
                aggregation_type |-> aggregation_type, cb |-> cb,
                result |-> q.result, scanned |-> <<>>]
     /\ Running
     /\ UNCHANGED <<accepted, purged, writes>>
     /\ Config
     /\ AsyncIdle
     /\ UNCHANGED snapshot

RetrieveDataSeries(start_time, end_time) ==
  /\ ret' = [op |-> "retrieveDataSeries", start |-> start_time, end |-> end_time,
             aggregation_type |-> "", cb |-> "null", result |-> Undefined,
             scanned |-> retrieveDataSeries(Cur, start_time, end_time, time_frame, tz)]
  /\ Running
  /\ Install(Cur)
  /\ UNCHANGED <<accepted, purged, writes>>
  /\ Config
  /\ AsyncIdle
  /\ UNCHANGED snapshot

Purge(older_than) ==
  /\ Install(purge(Cur, older_than, time_frame))
  /\ purged' = purged \cup {p \in Points :
                            /\ p.t < older_than
                            /\ \E i \in 1..Len(accepted) : accepted[i] = p}
  /\ Running
  /\ ret' = NoRet
  /\ UNCHANGED <<accepted, writes>>
  /\ Config
  /\ AsyncIdle
  /\ UNCHANGED snapshot

\* the history of a call that asks for consent
Consented(consent) ==
  /\ phase' = IF consent = "YES" THEN "running" ELSE "refused"
  /\ damaged' = {}

DatabaseClear(consent) ==
  /\ Install(databaseClear(Cur, consent))
  /\ Consented(consent)
  /\ ret' = NoRet
  /\ accepted' = IF consent = "YES" THEN <<>> ELSE accepted
  /\ UNCHANGED <<purged, writes>>
  /\ Config
  /\ AsyncIdle
  /\ snapshot' = IF consent = "YES" THEN NoSnapshot ELSE snapshot

DatabaseBackup(backup_path, include_index) ==
  /\ Install(databaseBackup(Cur, backup_path, include_index))
  /\ Running
  /\ ret' = NoRet
  /\ UNCHANGED <<accepted, purged, writes>>
  /\ Config
  /\ AsyncIdle
  /\ snapshot' = IF backup_path = DefaultBackupPath /\ include_index /\ data_in_ram = <<>>
                    THEN [taken |-> TRUE, stored |-> FALSE, shards |-> shards, index |-> index]
                    ELSE NoSnapshot

\* databaseBackup("easy_tsdb_backups/easy_tsdb_backup.json", include_index)
\* in a flushed state, which the history keeps
BackupStored(include_index) ==
  /\ data_in_ram = <<>>
  /\ Install(databaseBackup(Cur, InBackupsDir, include_index))
  /\ Running
  /\ ret' = NoRet
  /\ UNCHANGED <<accepted, purged, writes>>
  /\ Config
  /\ AsyncIdle
  /\ snapshot' = [taken |-> FALSE, stored |-> TRUE, shards |-> shards, index |-> index]

DatabaseRestore(consent, recalculate_index) ==
  /\ Install(databaseRestore(Cur, consent, recalculate_index))
  /\ Consented(consent)
  /\ ret' = NoRet
  /\ UNCHANGED <<accepted, purged, writes>>
  /\ Config
  /\ AsyncIdle
  /\ snapshot' = IF consent = "YES" THEN NoSnapshot ELSE snapshot

\* the engine is closed; an index file is altered from outside
DamageIndexFile(primary, how) ==
  /\ phase = "closed"
  /\ IF primary
       THEN Install([Cur EXCEPT !.index_json = Damaged(@, how)])
       ELSE Install([Cur EXCEPT !.index_backup_json = Damaged(@, how)])
  /\ phase' = "closed"
  /\ damaged' = damaged \cup {IF primary THEN "index.json" ELSE "index_backup.json"}
  /\ ret' = NoRet
  /\ UNCHANGED <<accepted, purged, writes>>
  /\ Config
  /\ AsyncIdle
  /\ UNCHANGED snapshot

\* a new EasyTSDB over the same directory, after the old one was closed or
\* its process stopped
Open ==
  /\ phase \in {"closed", "crashed"}
  /\ Install(constructor(Cur, time_frame))
  /\ phase' = "opened"
  /\ UNCHANGED damaged
  /\ ret' = NoRet
  /\ UNCHANGED <<accepted, purged, writes>>
  /\ Config
  /\ AsyncIdle
  /\ UNCHANGED snapshot

(***************************************************************************)
(* Specifications, one per group of operations.                            *)
(***************************************************************************)
Write == \E p \in Points : WritePoint(p)
Read == \E r \in Ranges : RetrieveDataSeries(r[1], r[2])
Ask == \E r \in QueryRanges, a \in QueryKeys, cb \in Reducers : Query(r[1], r[2], a, cb)
Drop == \E th \in Thresholds : Purge(th)
Clear == \E c \in Consents : DatabaseClear(c)
Backup == \E bp \in BackupPaths, ii \in BOOLEAN : DatabaseBackup(bp, ii)
\* a backup written where databaseRestore looks for it
BackupIn == \E ii \in BOOLEAN : DatabaseBackup(InBackupsDir, ii)
Restore == \E c \in Consents, ri \in BOOLEAN : DatabaseRestore(c, ri)
Damage == \E pr \in BOOLEAN, how \in DamageKinds : DamageIndexFile(pr, how)

\* the whole life of a database, every operation that changes it
Next ==
  \/ Write
  \/ Flush
  \/ AutosaveFire
  \/ Drop
  \/ Clear
  \/ BackupIn
  \/ Restore
  \/ DatabaseClose
  \/ Open

Spec == Init /\ [][Next]_vars

\* ingest and read back
NextIngest ==
  \/ Write
  \/ Flush
  \/ AutosaveFire
  \/ DatabaseClose
  \/ Read

SpecIngest == Init /\ [][NextIngest]_vars

\* ingest, retention, close and reopen
NextReopen ==
  \/ Write
  \/ Flush
  \/ Drop
  \/ Clear
  \/ DatabaseClose
  \/ Open

SpecReopen == Init /\ [][NextReopen]_vars

\* a clear and a restore that are given consent
ClearAll == DatabaseClear("YES")
RestoreAll == \E ri \in BOOLEAN : DatabaseRestore("YES", ri)

\* queries between mutations
NextQuery ==
  \/ Write
  \/ Flush
  \/ Drop
  \/ ClearAll
  \/ BackupIn
  \/ RestoreAll
  \/ Ask

\* the cache does not look at the frame: the hour frame alone
InitHour == Init /\ time_frame = "hour"

SpecQuery == InitHour /\ [][NextQuery]_vars

\* retention and read back
NextPurge ==
  \/ Write
  \/ Flush
  \/ Drop
  \/ Read

SpecPurge == Init /\ [][NextPurge]_vars

\* index persistence, damage to the index files, reopen
NextRecover ==
  \/ Write
  \/ Flush
  \/ Clear
  \/ DatabaseClose
  \/ Damage
  \/ Open

\* loading the index does not look at the host's time zone or at max_ram
InitUTC == Init /\ tz = 0 /\ max_ram = DefaultMaxRam

SpecRecover == InitUTC /\ [][NextRecover]_vars

(***************************************************************************)
(* Damage to a shard file from outside the engine.                         *)
(***************************************************************************)
\* a shard file whose text is not JSON
GarbageShard == [ok |-> FALSE, pts |-> <<>>]

DamageShardFile(path) ==
  /\ path \in DOMAIN shards
  /\ shards[path].ok
  /\ Install([Cur EXCEPT !.shards = [q \in DOMAIN shards |->
                                       IF q = path THEN GarbageShard ELSE shards[q]]])
  /\ Running
  /\ ret' = NoRet
  /\ UNCHANGED <<accepted, purged, writes>>
  /\ Config
  /\ AsyncIdle
  /\ UNCHANGED snapshot

DamageShard == \E p \in Points : DamageShardFile(FilePath(p.t, time_frame))

\* ingest and read back over shard files that may be damaged
NextShard ==
  \/ Write
  \/ Flush
  \/ DamageShard
  \/ Read

SpecShard == InitUTC /\ [][NextShard]_vars

\* one host on UTC with the default options
InitPlain == InitUTC /\ time_frame = "hour"

\* queries for the points themselves
AskRaw == \E r \in QueryRanges : Query(r[1], r[2], "raw", "null")

\* operations that ask for consent, between writes, flushes and queries
NextConsent ==
  \/ Write
  \/ Flush
  \/ AskRaw
  \/ BackupIn
  \/ Clear
  \/ Restore

SpecConsent == InitPlain /\ [][NextConsent]_vars

\* clears between writes, flushes, timer firings and reads
NextClear ==
  \/ Write
  \/ Flush
  \/ AutosaveFire
  \/ Clear
  \/ Read
  \/ AskRaw

SpecClear == InitPlain /\ [][NextClear]_vars

(***************************************************************************)
(* Backup, modification and restore under the default backup path.         *)
(***************************************************************************)
NextBackup ==
  \/ Write
  \/ Flush
  \/ Drop
  \/ Backup
  \/ Restore

SpecBackup == InitPlain /\ [][NextBackup]_vars

(***************************************************************************)
(* Shutdown: writes, flushes, timer firings, purges and clears, then       *)
(* databaseClose.                                                          *)
(***************************************************************************)
NextClose ==
  \/ Write
  \/ Flush
  \/ AutosaveFire
  \/ Drop
  \/ Clear
  \/ DatabaseClose

SpecClose == InitPlain /\ [][NextClose]_vars

(***************************************************************************)
(* Operations of the asynchronous storage.                                 *)
(***************************************************************************)
\* operations enqueued in one run
MaxJobs == 3
\* turns of a slice's loop before its clock ends the slice
MaxTurns == 3

CallWriteJson(filename, json) ==
  /\ next_id < MaxJobs
  /\ InstallAsync(WriteJson(AsyncCur, filename, json))
  /\ EngineIdle
  /\ UNCHANGED <<round_trip, content_obj, is_ready>>

CallReadJson(filename) ==
  /\ next_id < MaxJobs
  /\ InstallAsync(ReadJson(AsyncCur, filename, 0))
  /\ EngineIdle
  /\ UNCHANGED <<round_trip, content_obj, is_ready>>

\* the host fires the timer of a started operation
TimerSlice(j, n, callback) ==
  /\ j \in flight
  /\ j.stage # "dead"
  /\ callback = "ReadJson" => next_id < MaxJobs
  /\ InstallAsync(timerSlice(AsyncCur, j, n, callback))
  /\ EngineIdle
  /\ UNCHANGED <<round_trip, content_obj, is_ready>>

\* the host fires a timer armed by the continuation of processNext
ProcessNextTimer ==
  /\ next_timers > 0
  /\ InstallAsync(processNext([AsyncCur EXCEPT !.next_timers = @ - 1]))
  /\ EngineIdle
  /\ UNCHANGED <<round_trip, content_obj, is_ready>>

CallSaveAndQuit ==
  /\ InstallAsync(SaveAndQuit(AsyncCur))
  /\ EngineIdle
  /\ UNCHANGED <<round_trip, content_obj, is_ready>>

EmergencyStop ==
  /\ InstallAsync(emergencyStop(AsyncCur))
  /\ EngineIdle
  /\ UNCHANGED <<round_trip, content_obj, is_ready>>

\* objects written in the runs of the queue
Payloads ==
  {<<Field("counter", JNum(1))>>, <<Field("counter", JNum(2))>>}

AsyncWrite == \E f \in Files, x \in Payloads : CallWriteJson(f, x)
AsyncRead == \E f \in Files : CallReadJson(f)
Slice == \E j \in flight, n \in 1..MaxTurns, cb \in Callbacks : TimerSlice(j, n, cb)

NextAsync ==
  \/ AsyncWrite
  \/ AsyncRead
  \/ Slice
  \/ ProcessNextTimer
  \/ CallSaveAndQuit
  \/ EmergencyStop

SpecAsync == InitPlain /\ [][NextAsync]_vars

\* one file and one object: the order of the queue alone
OneWrite == CallWriteJson("a.json", <<Field("counter", JNum(1))>>)
OneRead == CallReadJson("a.json")

NextFifo ==
  \/ OneWrite
  \/ OneRead
  \/ Slice
  \/ ProcessNextTimer
  \/ CallSaveAndQuit
  \/ EmergencyStop

SpecFifo == InitPlain /\ [][NextFifo]_vars

(***************************************************************************)
(* Round trip of one object through the streaming encoder and decoder.     *)
(***************************************************************************)
\* items of an array field
MaxItems == 2
Scalars == {JNum(1), JNum(2)}
Arrays == {JArr(items) : items \in UNION {[1..n -> Scalars] : n \in 0..MaxItems}}
\* a field that is there or not
Optional(key, values) == {<<>>} \cup {<<Field(key, v)>> : v \in values}
\* objects of scalar fields and array fields, no name a reserved token
Objects ==
  {a \o b \o c \o d : a \in Optional("counter", Scalars),
                      b \in Optional("payload", Arrays),
                      c \in Optional("tags", {JArr(<<JNum(1)>>)}),
                      d \in Optional("constructor", Scalars)}

\* AsyncStorage.WriteJson("a.json", x) as the first call of the run
WriteObject(x) ==
  /\ next_id = 0
  /\ InstallAsync(WriteJson(AsyncCur, "a.json", x))
  /\ round_trip' = x
  /\ EngineIdle
  /\ UNCHANGED <<content_obj, is_ready>>

StreamWrite == \E x \in Objects : WriteObject(x)
\* the application reads the file back
StreamRead == next_id > 0 /\ CallReadJson("a.json")

NextStream ==
  \/ StreamWrite
  \/ StreamRead
  \/ Slice
  \/ ProcessNextTimer

SpecStream == InitPlain /\ [][NextStream]_vars

(***************************************************************************)
(* Round trip of an object that has a field named with a reserved token.   *)
(***************************************************************************)
ReservedObjects ==
  {a \o b : a \in Optional("counter", {JNum(1)}),
            b \in {<<Field(key, v)>> : key \in RESERVED_MSET,
                                       v \in {JNum(1), JArr(<<JNum(1)>>)}}}

EscapeWrite == \E x \in ReservedObjects : WriteObject(x)

NextEscape ==
  \/ EscapeWrite
  \/ StreamRead
  \/ Slice
  \/ ProcessNextTimer

SpecEscape == InitPlain /\ [][NextEscape]_vars

(***************************************************************************)
(* Files of the plain form: EasyStorageAsync reading what SaveAndQuit or   *)
(* the synchronous EasyStorage left on disk.                               *)
(***************************************************************************)
\* #parseMultiSync(raw) with every line read as a stream line
parseMultiSyncStreamOnly(raw) ==
  LET j == [Operation(0, "read", "", <<>>, 0) EXCEPT !.lines = raw.lines]
  IN [threw |-> FALSE, value |-> parseSlice(j, Len(raw.lines)).res]

\* #parseMultiSync(raw): the plain form unless the first line decodes to a
\* meta record; JSON.parse(raw) throws on more than one line
parseMultiSync(raw) ==
  LET first == nd_tokenDecode(raw.lines[1])
      j == [Operation(0, "read", "", <<>>, 0) EXCEPT !.lines = raw.lines]
  IN IF Get(first, "type") # JStr("meta")
       THEN IF Len(raw.lines) = 1
              THEN [threw |-> FALSE, value |-> raw.lines[1]]
              ELSE [threw |-> TRUE, value |-> <<>>]
       ELSE [threw |-> FALSE, value |-> parseSlice(j, Len(raw.lines)).res]

\* synchronize(): the pair of #content_obj and #is_ready it leaves
synchronize(raw, content, ready) ==
  IF ready THEN [content_obj |-> content, is_ready |-> TRUE]
  ELSE LET parsed == parseMultiSync(raw)
       IN [content_obj |-> IF raw.exists /\ raw.lines # <<>> /\ ~parsed.threw
                             THEN JObj(parsed.value)
                             ELSE content,
           is_ready |-> TRUE]

Synchronize ==
  /\ LET s == synchronize(files["a.json"], content_obj, is_ready)
     IN /\ content_obj' = s.content_obj
        /\ is_ready' = s.is_ready
  /\ EngineIdle
  /\ UNCHANGED <<queue_arr, is_running, active_ops, pend_writes_map, flight,
                 next_timers, files, started, next_id, uncalled, last_read,
                 saved, removals, round_trip>>

\* objects of the application, among them some with a field named type or T
LegacyObjects ==
  {a \o b \o c \o d : a \in Optional("type", {JStr("meta"), JStr("note")}),
                      b \in Optional("T", {JStr("meta")}),
                      c \in Optional("counter", Scalars),
                      d \in Optional("payload", {JArr(<<JNum(1)>>)})}

\* an earlier run called WriteJson("a.json", x) and then SaveAndQuit and
\* ended; this run starts with the module as loaded and the file in place
PreviousSession(x) ==
  /\ next_id = 0
  /\ ~is_ready
  /\ ~files["a.json"].exists
  /\ files' = SaveAndQuit(WriteJson(AsyncCur, "a.json", x)).files
  /\ round_trip' = x
  /\ EngineIdle
  /\ UNCHANGED <<queue_arr, is_running, active_ops, pend_writes_map, flight,
                 next_timers, started, next_id, uncalled, last_read, saved,
                 removals, content_obj, is_ready>>

LegacySave == \E x \in LegacyObjects : PreviousSession(x)
LegacyRead == files["a.json"].exists /\ CallReadJson("a.json")

NextLegacy ==
  \/ LegacySave
  \/ LegacyRead
  \/ Synchronize
  \/ Slice
  \/ ProcessNextTimer

SpecLegacy == InitPlain /\ [][NextLegacy]_vars

(***************************************************************************)
(* Queries by aggregation key, recognised or not.                          *)
(***************************************************************************)
\* the keys #performBuiltInAggregation has a case for
BuiltInKeys ==
  {"raw", "sum", "average", "min", "max", "count", "median", "mode", "stddev",
   "first", "last", "range", "iqr", "variance", "rate_of_change", "trend"}
\* keys asked for: two built-in ones and one that is none of them
AnyKeys == {"raw", "sum", "bogus"}

AskAny == \E r \in QueryRanges, a \in AnyKeys, cb \in Reducers : Query(r[1], r[2], a, cb)

NextKeys ==
  \/ Write
  \/ Flush
  \/ AskAny

SpecKeys == InitPlain /\ [][NextKeys]_vars

(***************************************************************************)
(* Autosave: writes and reads, and a host that runs every timer callback   *)
(* it holds (setTimeout fires once its delay has passed).                  *)
(***************************************************************************)
NextAutosave ==
  \/ Write
  \/ AutosaveFire
  \/ Read

\* the host runs the callback of the pending timer; among the steps of
\* NextAutosave these are the steps AutosaveFire
TimerFires == timer_pending /\ timer_pending' = FALSE

SpecAutosave == Init /\ [][NextAutosave]_vars /\ WF_timer_pending(TimerFires)

(***************************************************************************)
(* Construction with and without an autosave_interval option.              *)
(***************************************************************************)
AutosaveIntervals == {DefaultAutosaveInterval, CustomAutosaveInterval}

InitOptions == \E interval \in AutosaveIntervals : Construct(interval)

NextOptions ==
  \/ Write
  \/ Flush
  \/ AutosaveFire

SpecOptions == InitOptions /\ [][NextOptions]_vars

(***************************************************************************)
(* A process that stops inside #persistIndex.                              *)
(***************************************************************************)
\* where the process stops: before the first write, inside the truncating
\* write of index.json, between the two writes, inside the write of
\* index_backup.json, after both
Cuts == {"before", "primary", "between", "backup", "after"}

\* #persistIndex stopped at cut; a file cut short is not JSON
persistIndexStopped(s, frame, cut) ==
  LET sum == calculateIndexChecksum(s.index, frame)
      content == Envelope(s.index, sum)
  IN CASE cut = "before" -> s
       [] cut = "primary" -> [s EXCEPT !.index_json = GarbageFile]
       [] cut = "between" -> [s EXCEPT !.index_json = content]
       [] cut = "backup" -> [s EXCEPT !.index_json = content,
                                      !.index_backup_json = GarbageFile]
       [] cut = "after" -> persistIndex(s, frame)

\* flush() whose #persistIndexIfNeeded has to persist, the process stopping
\* at cut: the shard files are written, the timers die with the process
FlushStops(cut) ==
  /\ phase # "crashed"
  /\ has_pending_writes \/ db_cleared
  /\ \E r \in {FlushEntries(Cur, data_in_ram)} :
       /\ ~r.threw
       /\ cur_index_checksum # calculateIndexChecksum(r.st.index, time_frame)
       /\ Install([persistIndexStopped(r.st, time_frame, cut) EXCEPT
                     !.timer_pending = FALSE])
  /\ phase' = "crashed"
  /\ damaged' = {}
  /\ ret' = NoRet
  /\ UNCHANGED <<accepted, purged, writes>>
  /\ Config
  /\ AsyncIdle
  /\ UNCHANGED snapshot

Crash == \E cut \in Cuts : FlushStops(cut)
LiveWrite == phase # "crashed" /\ Write
LiveFlush == phase # "crashed" /\ Flush

NextCrash ==
  \/ LiveWrite
  \/ LiveFlush
  \/ Crash
  \/ Open

SpecCrash == InitUTC /\ [][NextCrash]_vars

(***************************************************************************)
(* The queue with SaveAndQuit and without the emergency stop.              *)
(***************************************************************************)
NextQuit ==
  \/ OneWrite
  \/ OneRead
  \/ Slice
  \/ ProcessNextTimer
  \/ CallSaveAndQuit

SpecQuit == InitPlain /\ [][NextQuit]_vars

(***************************************************************************)
(* The queue left to run: calls, timers, and a host on which a file may    *)
(* fail to open.  The host fires every timer that is armed.                *)
(***************************************************************************)
\* the first timer of a started write fires and openFile returns null
OpenFails(j, n) ==
  /\ j \in flight
  /\ j.kind = "write"
  /\ j.stage = "armed"
  /\ InstallAsync(openFails(AsyncCur, j, n))
  /\ EngineIdle
  /\ UNCHANGED <<round_trip, content_obj, is_ready>>

\* a timer of a write without a descriptor fires and the host's writeSync
\* or closeSync throws
SliceThrows(j) ==
  /\ j \in flight
  /\ j.fd = "null"
  /\ j.stage \in {"metaline", "items"}
  /\ InstallAsync(sliceThrows(AsyncCur, j))
  /\ EngineIdle
  /\ UNCHANGED <<round_trip, content_obj, is_ready>>

NoDescriptor == \E j \in flight, n \in 1..MaxTurns : OpenFails(j, n)
Throw == \E j \in flight : SliceThrows(j)

NextLive ==
  \/ OneWrite
  \/ OneRead
  \/ Slice
  \/ ProcessNextTimer
  \/ NoDescriptor
  \/ Throw

\* a timer that is armed fires: one of a started operation that has a timer
\* left, or one of processNext
TimersFire == Slice \/ NoDescriptor \/ Throw

SpecLive ==
  /\ InitPlain
  /\ [][NextLive]_vars
  /\ WF_vars(TimersFire)
  /\ WF_vars(ProcessNextTimer)

(***************************************************************************)
(* A file written and then removed.                                        *)
(***************************************************************************)
\* RemoveFile calls in one run
MaxRemovals == 1

CallRemoveFile(filename) ==
  /\ Cardinality(removals) < MaxRemovals
  /\ InstallAsync(RemoveFile(AsyncCur, filename))
  /\ EngineIdle
  /\ UNCHANGED <<round_trip, content_obj, is_ready>>

\* the host fires the timer of a RemoveFile call
RemoveTimer(r, kept) ==
  /\ r \in removals
  /\ ~r.fired
  /\ InstallAsync(removeTimer(AsyncCur, r, kept))
  /\ EngineIdle
  /\ UNCHANGED <<round_trip, content_obj, is_ready>>

\* WriteJson("a.json", x) while no RemoveFile has been called
WriteFirst == removals = {} /\ (\E x \in Payloads : CallWriteJson("a.json", x))
\* RemoveFile("a.json") once a WriteJson("a.json", x) has been called
RemoveAfter == next_id > 0 /\ CallRemoveFile("a.json")
Removal == \E r \in removals, kept \in Descriptors : RemoveTimer(r, kept)
\* timer slices whose callbacks return
PlainSlice == \E j \in flight, n \in 1..MaxTurns : TimerSlice(j, n, "return")

NextOrder ==
  \/ WriteFirst
  \/ RemoveAfter
  \/ Removal
  \/ PlainSlice
  \/ ProcessNextTimer

SpecOrder == InitPlain /\ [][NextOrder]_vars

(***************************************************************************)
(* EasyStorageAsync: the constructor's load, setKey and synchronize.       *)
(***************************************************************************)
\* the callback the constructor hands to AsyncStorage.ReadJson: the pair of
\* #content_obj and #is_ready it leaves
loaded(content, ready, err, data) ==
  IF ready THEN [content_obj |-> content, is_ready |-> TRUE]
  ELSE [content_obj |-> IF ~err THEN JObj(data) ELSE content, is_ready |-> TRUE]

\* getKey(key) with no default value
getKey(content, key) == Get(content.items, key)

\* setKey(key, value) with autosave on: #content_obj after the assignment
setKey(content, key, value) == JObj(Put(content.items, key, value))

\* an earlier run left the file in the plain form and ended
EarlierRun ==
  /\ next_id = 0
  /\ ~is_ready
  /\ ~files["a.json"].exists
  /\ \E x \in Payloads : files' = [files EXCEPT !["a.json"] = JsonFile(x)]
  /\ EngineIdle
  /\ UNCHANGED <<queue_arr, is_running, active_ops, pend_writes_map, flight,
                 next_timers, started, next_id, uncalled, last_read, saved,
                 removals, round_trip, content_obj, is_ready>>

\* new EasyStorageAsync("a.json"): the first operation of the run is its
\* ReadJson
NewEasyStorageAsync == next_id = 0 /\ CallReadJson("a.json")

\* the operation the constructor enqueued
IsLoad(j) == j.id = 1

\* a timer of the constructor's ReadJson fires; its last slice invokes the
\* constructor's callback
LoadSlice(j, n) ==
  /\ j \in flight
  /\ IsLoad(j)
  /\ \E a \in {timerSlice(AsyncCur, j, n, "return")} :
       /\ InstallAsync(a)
       /\ IF \A x \in a.flight : x.id # j.id
            THEN \E l \in {loaded(content_obj, is_ready, a.last_read.err, a.last_read.data)} :
                   content_obj' = l.content_obj /\ is_ready' = l.is_ready
            ELSE UNCHANGED <<content_obj, is_ready>>
  /\ EngineIdle
  /\ UNCHANGED round_trip

\* a timer of another started operation fires
SaveSlice(j, n) == ~IsLoad(j) /\ TimerSlice(j, n, "return")

\* keys and values of the application
Keys == {"counter", "theme"}

\* storage.setKey(key, value)
SetKey(key, value) ==
  /\ next_id > 0
  /\ next_id < MaxJobs
  /\ content_obj' = setKey(content_obj, key, value)
  /\ InstallAsync(WriteJson(AsyncCur, "a.json", content_obj'.items))
  /\ EngineIdle
  /\ UNCHANGED <<round_trip, is_ready>>

\* storage.synchronize()
SyncNow == next_id > 0 /\ Synchronize

Loading == \E j \in flight, n \in 1..MaxTurns : LoadSlice(j, n)
Saving == \E j \in flight, n \in 1..MaxTurns : SaveSlice(j, n)
Set == \E key \in Keys, value \in Scalars : SetKey(key, value)

NextLoad ==
  \/ EarlierRun
  \/ NewEasyStorageAsync
  \/ Loading
  \/ Saving
  \/ ProcessNextTimer
  \/ Set
  \/ SyncNow

SpecLoad == InitPlain /\ [][NextLoad]_vars

(***************************************************************************)
(* Restore from a file that is no backup.                                  *)
(***************************************************************************)
\* a file is put at easy_tsdb_backups/easy_tsdb_backup.json from outside
PlaceBackup(form) ==
  /\ Install([Cur EXCEPT !.backups_dir_file = MalformedBackup(form)])
  /\ UNCHANGED <<phase, damaged, accepted, purged, writes, ret>>
  /\ Config
  /\ AsyncIdle
  /\ UNCHANGED snapshot

Place == \E form \in Malformed : PlaceBackup(form)

NextMalformed ==
  \/ Write
  \/ Flush
  \/ Place
  \/ Restore

SpecMalformed == InitPlain /\ [][NextMalformed]_vars

(***************************************************************************)
(* Backup of a flushed database where databaseRestore looks for it, and    *)
(* the restore of it.                                                      *)
(***************************************************************************)
StoreBackup == \E ii \in BOOLEAN : BackupStored(ii)

NextRebuild ==
  \/ Write
  \/ Flush
  \/ StoreBackup
  \/ Restore

SpecRebuild == InitPlain /\ [][NextRebuild]_vars

(***************************************************************************)
(* Properties.                                                             *)
(***************************************************************************)
\* the engine and its directory after the step
CurNext ==
  [data_in_ram |-> data_in_ram', query_cache |-> query_cache', index |-> index',
   cur_index_checksum |-> cur_index_checksum',
   has_pending_writes |-> has_pending_writes', db_cleared |-> db_cleared',
   autosave_timeout_id |-> autosave_timeout_id', timer_pending |-> timer_pending',
   timer_delay |-> timer_delay',
   shards |-> shards', index_json |-> index_json',
   index_backup_json |-> index_backup_json', backup_file |-> backup_file',
   backups_dir_file |-> backups_dir_file', load_path |-> load_path',
   persisted |-> persisted']

\* occurrences of a point in a list of points
Count(p, pts) == Cardinality({i \in 1..Len(pts) : pts[i] = p})
\* a stored point as retrieveDataSeries returns it
Long(p) == [timestamp |-> p.t, value |-> p.v, measurement |-> p.m]
\* the pending list of the bucket of p
PendingOf(p) ==
  LET i == RamPos(data_in_ram, FilePath(p.t, time_frame))
  IN IF i = 0 THEN <<>> ELSE data_in_ram[i].pts
\* the shard file of the bucket of p
ShardOf(p) == getDataPointsFromFile(Cur, FilePath(p.t, time_frame))
\* the widest range read
Everything == <<TA, TC>>

\* C1: under writePoint, flush, autosave firings and databaseClose, every
\* point writePoint accepted is held, as often as it was accepted, by the
\* RAM buffer or by the shard file of its bucket: no accepted point is lost.
C1_NoAcceptedPointLost ==
  \A p \in Points :
    Count(p, accepted) <= Count(p, PendingOf(p)) + Count(p, ShardOf(p))

\* two points of one bucket: the first already in the shard file, the
\* second still pending, so that the next flush merges into that file
C1_MergePending ==
  /\ Len(accepted) = 2
  /\ accepted[1] # accepted[2]
  /\ FilePath(accepted[1].t, time_frame) = FilePath(accepted[2].t, time_frame)
  /\ Count(accepted[1], ShardOf(accepted[1])) = 1
  /\ Count(accepted[2], PendingOf(accepted[2])) = 1

\* C2: once every written point is flushed, retrieveDataSeries(t0, t1)
\* returns, for every written point p with t0 <= p.t <= t1, a point with the
\* measurement, value and timestamp of p.
C2_FlushedPointIsRetrieved ==
  (ret.op = "retrieveDataSeries" /\ data_in_ram = <<>>) =>
    \A i \in 1..Len(accepted) :
      (ret.start <= accepted[i].t /\ accepted[i].t <= ret.end) =>
        \E j \in 1..Len(ret.scanned) : ret.scanned[j] = Long(accepted[i])

\* C3: a database that was closed and is opened again answers every
\* retrieveDataSeries and every query as the closed instance did.
C3_ReopenPreservesReads ==
  [][Open =>
       \A r \in Ranges :
         /\ retrieveDataSeries(CurNext, r[1], r[2], time_frame, tz)
              = retrieveDataSeries(Cur, r[1], r[2], time_frame, tz)
         /\ \A a \in QueryKeys :
              query(CurNext, r[1], r[2], a, "null", time_frame, tz).result
                = query(Cur, r[1], r[2], a, "null", time_frame, tz).result]_vars

\* C4: a flush, purge, databaseClear or databaseRestore that changes the
\* shard files or the index leaves the query cache without any entry that a
\* later query would return (an entry holding undefined or 0 is recomputed).
C4_MutationEmptiesCache ==
  [][((Flush \/ Drop \/ Clear \/ Restore) /\ (shards' # shards \/ index' # index))
       => \A k \in DOMAIN query_cache' : ~Truthy(query_cache'[k])]_vars

\* C5: what query returns is the built-in aggregation, or the supplied
\* reducer, applied to the scan of its range over the shards stored now.
C5_QueryIsAggregateOfScan ==
  ret.op = "query" =>
    ret.result =
      Aggregate(collectDataPointsForRange(Cur, ret.start, ret.end, time_frame, tz),
                ret.aggregation_type, ret.cb)

\* C6: a point accepted before purge(threshold) and older than the
\* threshold is returned by no later retrieveDataSeries.
C6_PurgedPointNeverReturned ==
  ret.op = "retrieveDataSeries" =>
    \A j \in 1..Len(ret.scanned) : \A p \in purged : ret.scanned[j] # Long(p)

\* C7: a point not older than the threshold that retrieveDataSeries returned
\* before purge(threshold) is still returned after it.
C7_PurgeKeepsNewerPoints ==
  [][\A th \in Thresholds :
       Purge(th) =>
         LET before == retrieveDataSeries(Cur, Everything[1], Everything[2], time_frame, tz)
             after == retrieveDataSeries(CurNext, Everything[1], Everything[2], time_frame, tz)
         IN \A i \in 1..Len(before) :
              before[i].timestamp >= th =>
                \E j \in 1..Len(after) : after[j] = before[i]]_vars

\* C8: after every operation the shard files of the data directory are
\* exactly the buckets the in-memory index marks present.
C8_ShardFileIffIndexed == DOMAIN shards = index

\* index.json as #persistIndex wrote it last
PrimaryIntact ==
  index_json = Envelope(persisted.index, calculateIndexChecksum(persisted.index, time_frame))
\* index_backup.json as #persistIndex wrote it last
BackupIntact ==
  index_backup_json
    = Envelope(persisted.index, calculateIndexChecksum(persisted.index, time_frame))
\* the file is there and #tryLoadIndex accepts it
Loads(file) == file.exists /\ tryLoadIndex(file, time_frame)

\* C9 as stated: whatever happened to index.json since the last persist,
\* open loads the persisted index while index_backup.json is as written.
C9_LoadsPersistedWhateverPrimary ==
  [][(Open /\ persisted.valid /\ BackupIntact) => index' = persisted.index]_vars

\* C9: open loads the index of the last persist when both files are as
\* written, and also, from index_backup.json, when index.json is missing, no
\* longer parses or no longer matches its checksum.
C9_LoadsPersistedIndex ==
  [][(Open /\ persisted.valid /\ BackupIntact /\ (PrimaryIntact \/ ~Loads(index_json)))
       => index' = persisted.index]_vars

\* opened over a damaged index.json: the persisted buckets came from the backup
C9_RecoveredFromBackup ==
  /\ phase = "opened"
  /\ damaged = {"index.json"}
  /\ ~PrimaryIntact
  /\ load_path = "backup"
  /\ persisted.valid
  /\ persisted.index # {}
  /\ index = persisted.index

\* C10: open always completes; when neither index.json nor
\* index_backup.json loads, it ends with an empty in-memory index and both
\* files holding the checksum-valid envelope of the empty index.
C10_OpenRebuildsEmptyIndex ==
  [][(Open /\ ~Loads(index_json) /\ ~Loads(index_backup_json)) =>
       /\ index' = {}
       /\ index_json' = Envelope({}, calculateIndexChecksum({}, time_frame))
       /\ index_backup_json' = index_json'
       /\ Loads(index_json') /\ Loads(index_backup_json')]_vars

\* opened over two damaged index files while shard files are there
C10_OpenedOverTwoDamagedFiles ==
  /\ phase = "opened"
  /\ damaged = {"index.json", "index_backup.json"}
  /\ load_path = "empty"
  /\ DOMAIN shards # {}
  /\ index = {}
  /\ Loads(index_json) /\ Loads(index_backup_json)

\* C11: when neither index file loads, open rebuilds the index from the
\* shard files of the data directory, so that the index marks every shard
\* file that is there and the flushed points stay retrievable.
C11_OpenRebuildsFromShards ==
  [][(Open /\ ~Loads(index_json) /\ ~Loads(index_backup_json)) =>
       /\ index' = DOMAIN shards'
       /\ retrieveDataSeries(CurNext, Everything[1], Everything[2], time_frame, tz)
            = retrieveDataSeries(Cur, Everything[1], Everything[2], time_frame, tz)]_vars

\* the pending entries whose shard file is absent or parses
Healthy(e) == e.path \notin DOMAIN shards \/ shards[e.path].ok

\* C12: a shard file that is not JSON affects only itself: a read returns
\* the points of every other shard in range, and a flush does not throw and
\* writes and indexes the pending points of every other shard.
C12_DamagedShardStaysAlone ==
  [][/\ Flush =>
          /\ ~flush(Cur, time_frame).threw
          /\ \A i \in 1..Len(data_in_ram) :
               Healthy(data_in_ram[i]) =>
                 /\ data_in_ram[i].path \in index'
                 /\ data_in_ram[i].path \in DOMAIN shards'
                 /\ shards'[data_in_ram[i].path].pts
                      = getDataPointsFromFile(Cur, data_in_ram[i].path) \o data_in_ram[i].pts
     /\ RetrieveDataSeries(Everything[1], Everything[2]) =>
          \A q \in DOMAIN shards :
            shards[q].ok =>
              \A j \in 1..Len(shards[q].pts) :
                \E k \in 1..Len(ret'.scanned) : ret'.scanned[k] = Long(shards[q].pts[j])]_vars

\* C13: databaseClear and databaseRestore called with a consent other than
\* "YES" leave the RAM buffer, the index, the query cache, the autosave
\* timer, the dirty and cleared flags and every file as they were.
C13_NoConsentNoEffect ==
  [][(\E c \in Consents \ {"YES"} :
        DatabaseClear(c) \/ \E ri \in BOOLEAN : DatabaseRestore(c, ri))
       => UNCHANGED <<data_in_ram, index, query_cache, autosave_timeout_id,
                      timer_pending, has_pending_writes, db_cleared,
                      cur_index_checksum, shards, index_json, index_backup_json,
                      backup_file, backups_dir_file>>]_vars

\* a call without consent has returned on a database that holds pending
\* points, a shard file, a cached query, an armed timer and a backup
C13_RefusedOnLiveDatabase ==
  /\ phase = "refused"
  /\ data_in_ram # <<>>
  /\ DOMAIN shards # {}
  /\ query_cache # EmptyMap
  /\ timer_pending
  /\ backups_dir_file.exists

\* C14: databaseClear("YES") leaves no shard file, no index file, an empty
\* RAM buffer, index and query cache and no armed timer; and whatever is
\* done afterwards, a read returns only points accepted since the clear,
\* each no more often than it was accepted.
C14_ClearedPointsStayGone ==
  [][/\ DatabaseClear("YES") =>
          /\ shards' = EmptyMap
          /\ index_json' = NoFile /\ index_backup_json' = NoFile
          /\ data_in_ram' = <<>> /\ index' = {} /\ query_cache' = EmptyMap
          /\ ~timer_pending'
     /\ ret'.op = "retrieveDataSeries" =>
          \A p \in Points :
            Cardinality({j \in 1..Len(ret'.scanned) : ret'.scanned[j] = Long(p)})
              <= Count(p, accepted')
     /\ (ret'.op = "query" /\ ret'.result.kind = "list") =>
          \A p \in Points : Count(p, ret'.result.list) <= Count(p, accepted')]_vars

\* a point was written and cleared, another was written and flushed, and
\* the read over everything returns the second one alone
C14_ReadAfterClear ==
  /\ writes = 2
  /\ Len(accepted) = 1
  /\ data_in_ram = <<>>
  /\ ret.op = "retrieveDataSeries"
  /\ ret.scanned = <<Long(accepted[1])>>

\* the engine as it stood when the snapshot was taken
AtSnapshot ==
  [Cur EXCEPT !.data_in_ram = <<>>, !.shards = snapshot.shards,
              !.index = snapshot.index]

\* C15: once databaseBackup("easy_tsdb_backup.json", true) has run in a
\* flushed state S and only writePoint, flush and purge have run since,
\* databaseRestore("YES", "easy_tsdb_backup.json", false) leaves the shard
\* files and the index of S, and every range reads as it did in S.
C15_RestoreReturnsToBackup ==
  [][(snapshot.taken /\ DatabaseRestore("YES", FALSE)) =>
       /\ shards' = snapshot.shards
       /\ index' = snapshot.index
       /\ \A r \in Ranges :
            retrieveDataSeries(CurNext, r[1], r[2], time_frame, tz)
              = retrieveDataSeries(AtSnapshot, r[1], r[2], time_frame, tz)]_vars

\* C16: when databaseClose returns the RAM buffer is empty, every point
\* accepted since the last clear that no purge was asked to remove is in the
\* shard file of its bucket, index.json and index_backup.json both hold the
\* checksummed envelope of the in-memory index, and no autosave callback is
\* left with the host.
C16_CloseLeavesDurableState ==
  [][DatabaseClose =>
       /\ data_in_ram' = <<>>
       /\ \A i \in 1..Len(accepted') :
            accepted'[i] \notin purged' =>
              Count(accepted'[i], getDataPointsFromFile(CurNext, FilePath(accepted'[i].t, time_frame)))
                >= Count(accepted'[i], accepted')
       /\ index_json' = Envelope(index', calculateIndexChecksum(index', time_frame))
       /\ index_backup_json' = Envelope(index', calculateIndexChecksum(index', time_frame))
       /\ ~timer_pending']_vars

\* C17: under WriteJson, ReadJson, timer slices, completions, SaveAndQuit
\* and emergency stop, at most one operation of the queue has started and
\* not yet invoked its continuation.
C17_OneJobAtATime == Cardinality(flight) <= 1

\* ids of the operations waiting in the queue, in queue order
QueuedIds == [x \in 1..Len(queue_arr) |-> queue_arr[x].id]

\* C18: operations start in the order they were enqueued: the ids in start
\* order increase, no operation has started while an earlier one still
\* waits, and the queue holds its operations in enqueue order, so that an
\* operation enqueued from a callback waits behind all that were queued.
C18_StartsInEnqueueOrder ==
  /\ \A x, y \in 1..Len(started) : x < y => started[x] < started[y]
  /\ \A x \in 1..Len(started), y \in 1..Len(queue_arr) : started[x] < QueuedIds[y]
  /\ \A x, y \in 1..Len(queue_arr) : x < y => QueuedIds[x] < QueuedIds[y]

\* three operations have started, the third being the read that the
\* callback of operation 1 enqueued; it started after operation 2
C18_ReentrantStartedLast ==
  /\ started = <<1, 2, 3>>
  /\ \E j \in flight : j.id = 3 /\ j.by = 1

\* files named in a WriteJson call whose callback has not run
UncalledFiles == {c.file : c \in uncalled}
\* the most recent such call for file f
LatestCall(f) ==
  CHOOSE c \in uncalled : c.file = f /\ \A d \in uncalled : d.file = f => d.id <= c.id

\* C19: when SaveAndQuit returns, every file named in a WriteJson call whose
\* callback has not run holds the JSON of the data of the most recent such
\* call, and the count returned is the number of those files.
C19_SaveAndQuitSavesPending ==
  [][CallSaveAndQuit =>
       /\ \A f \in UncalledFiles : files'[f] = JsonFile(LatestCall(f).json)
       /\ saved' = Cardinality(UncalledFiles)]_vars

\* x and y have the same fields with the same values
SameObject(x, y) ==
  /\ {x[i].k : i \in 1..Len(x)} = {y[i].k : i \in 1..Len(y)}
  /\ \A i \in 1..Len(x) : Get(y, x[i].k) = x[i].v
\* the array fields of x, in the order of its keys
ArrayFields(x) == SelectSeq(x, LAMBDA f : f.v.tag = "array")
\* one item record per element of each of the array fields fs, in order
RECURSIVE ItemRecords(_)
ItemRecords(fs) ==
  IF fs = <<>> THEN <<>>
  ELSE [i \in 1..Len(Head(fs).v.items) |->
          <<Field("T", JStr(Head(fs).k)), Field("D", Head(fs).v.items[i])>>]
         \o ItemRecords(Tail(fs))
\* lines are one meta record listing each array field of x with its length,
\* followed by the item records of the array fields
StreamOf(lines, x) ==
  LET meta == lines[1]
      arrays == ArrayFields(x)
      listed == IF HasOwn(meta, "A") THEN Get(meta, "A").items ELSE <<>>
  IN /\ Len(lines) >= 1
     /\ Get(meta, "T") = JStr("meta")
     /\ Len(listed) = Len(arrays)
     /\ \A i \in 1..Len(arrays) :
          /\ listed[i] = JStr(arrays[i].k)
          /\ Get(meta, arrays[i].k) = JNum(Len(arrays[i].v.items))
     /\ Len(lines) = 1 + Len(ItemRecords(arrays))
     /\ \A i \in 1..Len(ItemRecords(arrays)) : lines[i + 1] = ItemRecords(arrays)[i]

\* C20: once the streaming write of x has completed, the file is one meta
\* record listing each array field of x with its length followed by that
\* many item records per array field in order; and what a later ReadJson
\* hands to its callback is an object equal to x.
C20_StreamRoundTrip ==
  /\ (started # <<>> /\ \A j \in flight : j.id # 1) =>
       StreamOf(files["a.json"].lines, round_trip)
  /\ last_read.id # 0 =>
       (~last_read.err /\ SameObject(last_read.data, round_trip))

\* the fields of x named with a reserved token
ReservedFields(x) == SelectSeq(x, LAMBDA f : f.k \in RESERVED_MSET)

\* C21: once the streaming write of an object x with a reserved field name
\* has completed, the meta record holds that field under _u; and what a
\* later ReadJson hands to its callback is an object equal to x.
C21_EscapeRoundTrip ==
  /\ (started # <<>> /\ \A j \in flight : j.id # 1) =>
       LET meta == files["a.json"].lines[1]
       IN \A i \in 1..Len(ReservedFields(round_trip)) :
            /\ HasOwn(meta, "_u")
            /\ Get(Get(meta, "_u").items, ReservedFields(round_trip)[i].k)
                 = ReservedFields(round_trip)[i].v
  /\ last_read.id # 0 =>
       (~last_read.err /\ SameObject(round_trip, last_read.data))

\* the file holds the plain JSON of round_trip and nothing else
PlainOnDisk == files["a.json"] = JsonFile(round_trip)
\* the first line of the plain JSON of x decodes to a meta record
LooksLikeStream(x) == Get(nd_tokenDecode(x), "type") = JStr("meta")

\* C22: a file holding the plain JSON of an object x is
\* delivered by ReadJson, and loaded by synchronize, as an object equal
\* to x, for every object x.
C22_LegacyFormAccepted ==
  PlainOnDisk =>
    /\ last_read.id # 0 =>
         (~last_read.err /\ SameObject(round_trip, last_read.data))
    /\ is_ready =>
         SameObject(round_trip, content_obj.items)

\* C22, the extent of the failure: the property holds of every object x
\* whose type field (or T field, the token of type) is not the string "meta".
C22_LegacyFormAcceptedUnlessMeta ==
  (PlainOnDisk /\ ~LooksLikeStream(round_trip)) =>
    /\ last_read.id # 0 =>
         (~last_read.err /\ SameObject(round_trip, last_read.data))
    /\ is_ready =>
         SameObject(round_trip, content_obj.items)

\* a plain file with array and scalar fields was read back by both paths
C22_LegacyReadBack ==
  /\ PlainOnDisk
  /\ ~LooksLikeStream(round_trip)
  /\ HasOwn(round_trip, "payload")
  /\ HasOwn(round_trip, "type")
  /\ last_read.id # 0
  /\ is_ready

\* the last operation was a query by key, with no reducer of the caller's
AskedByKey == ret.op = "query" /\ ret.cb = "null"
\* the range of the last query holds no point
ScannedNothing ==
  collectDataPointsForRange(Cur, ret.start, ret.end, time_frame, tz) = <<>>

\* C23: a query whose aggregation key is none of the built-in keys, with no
\* reducer supplied, fails with the unsupported-aggregation error in every
\* state of the database and for every range.
C23_UnknownKeyFails ==
  (AskedByKey /\ ret.aggregation_type \notin BuiltInKeys) => ret.result = Throws

\* C23, the extent of the failure: the error is raised whenever the range
\* holds a point and the cache holds no result under the same key.
C23_UnknownKeyFailsOnData ==
  (AskedByKey /\ ret.aggregation_type \notin BuiltInKeys /\ ~ScannedNothing
     /\ DOMAIN query_cache = {})
    => ret.result = Throws

\* C24: when the scanned range holds no point, query returns undefined for
\* every built-in key except raw, for which it returns the empty list.
C24_EmptyRangeResult ==
  (AskedByKey /\ ret.aggregation_type \in BuiltInKeys /\ ScannedNothing) =>
    ret.result = IF ret.aggregation_type = "raw" THEN List(<<>>) ELSE Undefined

\* C24, the extent of the failure: undefined for every built-in key, raw
\* included.
C24_EmptyRangeUndefined ==
  (AskedByKey /\ ret.aggregation_type \in BuiltInKeys /\ ScannedNothing) =>
    ret.result = Undefined

\* C25: the flush that follows databaseClear("YES") writes no shard file and
\* persists the index: when it returns, index.json and index_backup.json
\* both hold the checksum-valid envelope of the current (empty) index,
\* whatever the index was before the clear.
C25_FlushAfterClearPersists ==
  [][(db_cleared /\ data_in_ram = <<>> /\ ~db_cleared') =>
       /\ shards' = shards
       /\ index' = {}
       /\ index_json' = Envelope(index', calculateIndexChecksum(index', time_frame))
       /\ index_backup_json' = index_json']_vars

\* the accepted points that writePoint routed to the shard path, in the
\* order of their acceptance
RoutedTo(path) ==
  SelectSeq(accepted, LAMBDA q : FilePath(q.t, time_frame) = path)
\* the pending list of the shard path
PendingAt(path) ==
  LET i == RamPos(data_in_ram, path)
  IN IF i = 0 THEN <<>> ELSE data_in_ram[i].pts

\* C26: after any sequence of writePoint and flush calls each shard file
\* holds exactly the flushed points routed to its bucket, each once, in the
\* order of their acceptance, points of earlier flushes first: the file
\* followed by the pending list of its bucket is the list of the points
\* accepted for the bucket, and a bucket with no file has flushed nothing.
C26_ShardHoldsFlushedInOrder ==
  /\ \A path \in DOMAIN shards :
       /\ shards[path].ok
       /\ shards[path].pts \o PendingAt(path) = RoutedTo(path)
  /\ \A i \in 1..Len(accepted) :
       LET path == FilePath(accepted[i].t, time_frame)
       IN path \notin DOMAIN shards => PendingAt(path) = RoutedTo(path)

\* two different points of one bucket are both in its shard file and
\* nothing is pending
C26_TwoPointsOnDisk ==
  /\ Len(accepted) = 2
  /\ accepted[1] # accepted[2]
  /\ data_in_ram = <<>>
  /\ LET path == FilePath(accepted[1].t, time_frame)
     IN /\ path \in DOMAIN shards
        /\ shards[path].pts = accepted

\* the start of the i-th bucket from the one that holds start - 1 day
BucketStart(start, i) ==
  ((start - SecPerDay) \div BucketLen(time_frame)) * BucketLen(time_frame)
    + (i - 1) * BucketLen(time_frame)
\* the buckets from the one of start - 1 day to the one of end, ascending
BucketsBetween(start, end) ==
  IF end < start - SecPerDay THEN <<>>
  ELSE [i \in 1..((end - BucketStart(start, 1)) \div BucketLen(time_frame) + 1) |->
          FilePath(BucketStart(start, i), time_frame)]
RECURSIVE StoredIn(_)
\* the points of the shard files of the buckets bs, file after file
StoredIn(bs) ==
  IF bs = <<>> THEN <<>>
  ELSE LET pts == getDataPointsFromFile(Cur, Head(bs))
       IN [i \in 1..Len(pts) |-> Long(pts[i])] \o StoredIn(Tail(bs))
\* what a visit of each indexed bucket of the range, once and in ascending
\* order, returns
IndexedSeries(start, end) ==
  StoredIn(SelectSeq(BucketsBetween(start, end), LAMBDA b : b \in index))

\* C27: retrieveDataSeries(start, end) visits every indexed bucket between
\* start minus one day and end exactly once, in ascending time order: it
\* returns each stored point of those buckets once, ordered by bucket and by
\* insertion order within a bucket.
C27_SeriesVisitsEachBucketOnce ==
  ret.op = "retrieveDataSeries" => ret.scanned = IndexedSeries(ret.start, ret.end)

\* C27, the extent of the failure: the property holds on a host whose local
\* time is UTC.
C27_SeriesVisitsEachBucketOnceUTC ==
  (ret.op = "retrieveDataSeries" /\ tz = 0) =>
    ret.scanned = IndexedSeries(ret.start, ret.end)

\* C28: the scan builds the date, hour and minute keys of its cursor with the
\* UTC rule of writePoint: for every host offset and every timestamp t the
\* keys of a cursor equal to t name the shard writePoint chose for t, the
\* one where the point written at t is pending or stored.
C28_CursorKeyNamesShard ==
  \A i \in 1..Len(accepted) :
    LET key == CursorKey(accepted[i].t, time_frame, tz)
    IN Count(accepted[i], PendingAt(key))
         + Count(accepted[i], getDataPointsFromFile(Cur, key)) >= 1

\* C28, the extent of the failure: the keys agree on a host on UTC.
C28_CursorKeyNamesShardUTC ==
  tz = 0 =>
    \A i \in 1..Len(accepted) :
      CursorKey(accepted[i].t, time_frame, tz) = FilePath(accepted[i].t, time_frame)

\* the point handed to the writePoint of this step
Written == accepted'[Len(accepted')]
\* the estimate of the buffer once writePoint has pushed that point
PushedUsage ==
  calculateUsageOfRAM(RamPush(data_in_ram, FilePath(Written.t, time_frame), Written))

\* C29: when a writePoint call returns, the estimated serialized size of the
\* RAM buffer does not exceed max_ram: a write that pushes the estimate
\* above the ceiling flushes at once and leaves the buffer empty.
C29_WriteKeepsRamUnderCeiling ==
  [][writes' = writes + 1 =>
       /\ calculateUsageOfRAM(data_in_ram') <= max_ram
       /\ PushedUsage > max_ram =>
            /\ data_in_ram' = <<>>
            /\ ~has_pending_writes'
            /\ Count(Written, getDataPointsFromFile(CurNext, FilePath(Written.t, time_frame))) >= 1
       /\ PushedUsage <= max_ram =>
            /\ shards' = shards
            /\ calculateUsageOfRAM(data_in_ram') = PushedUsage]_vars

\* the second write went over the small ceiling: both points are on disk
\* and the timer that write armed is still pending
C29_FlushedByCeiling ==
  /\ max_ram = SmallMaxRam
  /\ Len(accepted) = 2
  /\ data_in_ram = <<>>
  /\ timer_pending
  /\ \A i \in 1..2 :
       Count(accepted[i], getDataPointsFromFile(Cur, FilePath(accepted[i].t, time_frame))) >= 1

\* nothing is pending, every accepted point is in the shard file of its
\* bucket and both index files hold the envelope of the index
AllDurable ==
  /\ data_in_ram = <<>>
  /\ \A i \in 1..Len(accepted) :
       Count(accepted[i], ShardOf(accepted[i])) = Count(accepted[i], accepted)
  /\ \A i \in 1..Len(accepted) : FilePath(accepted[i].t, time_frame) \in index
  /\ index_json = Envelope(index, calculateIndexChecksum(index, time_frame))
  /\ index_backup_json = index_json

C31_TimerDelayIsOption ==
  timer_pending => timer_delay = autosave_interval * 1000

\* C31, the extent of the failure: the delay is the default whatever option
\* was supplied.
C31_TimerDelayIsDefault ==
  timer_pending => timer_delay = DefaultAutosaveInterval * 1000

\* C32: when index.json fails validation or is missing and
\* index_backup.json validates, open adopts the backup index and rewrites
\* index.json before it returns: index.json then holds the checksum-valid
\* envelope of the adopted index.
C32_OpenRewritesPrimary ==
  [][(Open /\ ~Loads(index_json) /\ Loads(index_backup_json)) =>
       /\ index' = index_backup_json.index_data
       /\ index_json' = Envelope(index', calculateIndexChecksum(index', time_frame))]_vars

\* C32, the extent of the failure: open adopts the backup index and leaves
\* both files as it found them.
C32_OpenAdoptsBackup ==
  [][(Open /\ ~Loads(index_json) /\ Loads(index_backup_json)) =>
       /\ index' = index_backup_json.index_data
       /\ UNCHANGED <<index_json, index_backup_json>>]_vars

\* C33: if the process stops at any point of an index persist and both
\* envelopes were valid before it, the next open recovers the index of
\* before or of after that persist, never an empty or partial one.
C33_StoppedPersistRecovers ==
  [][(phase' = "crashed" /\ Loads(index_json) /\ Loads(index_backup_json)) =>
       constructor(CurNext, time_frame).index \in {index_json.index_data, index'}]_vars

\* C33, the extent of the failure: the property holds when the two
\* envelopes were valid and held the same index before the persist.
C33_StoppedPersistRecoversInSync ==
  [][(phase' = "crashed" /\ Loads(index_json) /\ index_backup_json = index_json) =>
       constructor(CurNext, time_frame).index \in {index_json.index_data, index'}]_vars

\* the process stopped inside the write of index.json and the next open
\* took the buckets of the persist before from index_backup.json
C33_ReopenedFromBackup ==
  /\ phase = "opened"
  /\ load_path = "backup"
  /\ ~Loads(index_json)
  /\ index # {}
  /\ index = index_backup_json.index_data

\* the restore rebuilds the index: recalculate_index, or a backup without one
Rebuilds ==
  \E ri \in BOOLEAN :
    /\ DatabaseRestore("YES", ri)
    /\ backups_dir_file.exists
    /\ ri \/ ~backups_dir_file.has_index

\* C34: after databaseRestore("YES", path, recalculate_index) with
\* recalculate_index true, or with a backup that carries no index, the
\* in-memory index marks exactly the buckets of the shard files in the data
\* directory, and every point the backup was taken of is read back.
C34_RestoreRebuildsIndex ==
  [][(snapshot.stored /\ Rebuilds) =>
       /\ index' = DOMAIN shards'
       /\ retrieveDataSeries(CurNext, Everything[1], Everything[2], time_frame, tz)
            = retrieveDataSeries(AtSnapshot, Everything[1], Everything[2], time_frame, tz)]_vars

\* C34, the extent of the failure: such a restore leaves no shard file and
\* an empty index, so the index agrees with the directory and nothing of
\* the backup is read back.
C34_RestoreLeavesNothing ==
  [][(snapshot.stored /\ Rebuilds) =>
       /\ shards' = EmptyMap
       /\ index' = {}
       /\ retrieveDataSeries(CurNext, Everything[1], Everything[2], time_frame, tz) = <<>>]_vars

\* AsyncOperationQueue.isBusy
isBusy(a) == a.is_running /\ (Len(a.queue_arr) >= 4 \/ a.active_ops > 0)
\* streaming writes that have started and not yet finalized
StreamingWrites == {j \in flight : j.kind = "write"}

\* C35: under WriteJson, ReadJson, timer slices and SaveAndQuit the counter
\* active_ops is never negative and equals the number of streaming writes
\* started and not yet finalized, and isBusy() is true while there is one.
C35_ActiveOpsCountsWrites ==
  /\ active_ops >= 0
  /\ active_ops = Cardinality(StreamingWrites)
  /\ StreamingWrites # {} => isBusy(AsyncCur)

\* C35, the extent of the failure: where SaveAndQuit and the emergency stop
\* are never called, the counter is the number of streaming writes in
\* progress and the queue is marked running while an operation is started.
C35_CountsWritesWithoutQuit ==
  /\ active_ops = Cardinality(StreamingWrites)
  /\ flight # {} => is_running

\* the counter below zero: a write that SaveAndQuit left in flight finalized
C35_NegativeCount == active_ops < 0

\* streaming writes that were in flight when SaveAndQuit was called: started,
\* their callback not run, and no longer among the calls waiting for one
LeftInFlight == {j \in StreamingWrites : \A c \in uncalled : c.id # j.id}
\* a timer slice of one of them runs
LeftoverSlice ==
  \E j \in LeftInFlight, n \in 1..MaxTurns, cb \in Callbacks : TimerSlice(j, n, cb)

\* C36: once SaveAndQuit has returned, no timer slice of a streaming write
\* that was in flight when it was called changes a file, so the files keep
\* what SaveAndQuit wrote.
C36_NoWriteAfterSaveAndQuit ==
  [][LeftoverSlice => files' = files]_vars

\* C36, the extent of the failure: such a slice changes no file but the one
\* its own write was streaming to.
C36_LeftoverWritesOwnFile ==
  [][\A j \in LeftInFlight :
       (\E n \in 1..MaxTurns, cb \in Callbacks : TimerSlice(j, n, cb)) =>
         \A f \in Files \ {j.file} : files'[f] = files[f]]_vars

\* the callback of operation id has been invoked: it started and is no
\* longer on its way
CalledBack(id) ==
  /\ \E i \in 1..Len(started) : started[i] = id
  /\ \A j \in flight : j.id # id
\* a started operation has no timer left and its callback has not run
Stuck == \E j \in flight : j.stage = "dead"

\* C37: with no SaveAndQuit, every operation WriteJson or ReadJson enqueued
\* eventually has its callback invoked, and only once, whatever the file
\* is like and whether or not it can be opened, so the queue goes on to the
\* operations that wait.
C37_EveryJobCalledBack ==
  /\ \A id \in 1..MaxJobs : (next_id >= id) ~> CalledBack(id)
  /\ [][\A id \in 1..MaxJobs : CalledBack(id) => CalledBack(id)']_vars

\* C37, the extent of the failure: every operation is called back, and only
\* once, unless a write whose file could not be opened is left without a
\* timer.
C37_CalledBackUnlessStuck ==
  /\ \A id \in 1..MaxJobs : (next_id >= id) ~> (CalledBack(id) \/ Stuck)
  /\ [][\A id \in 1..MaxJobs : CalledBack(id) => CalledBack(id)']_vars

\* the queue is marked running, an operation waits, and no timer is armed
C37_RunningForever ==
  /\ Stuck
  /\ is_running
  /\ queue_arr # <<>>
  /\ next_timers = 0
  /\ \A j \in flight : j.stage = "dead"

\* every operation enqueued has been called back and every removal has run
AllCompleted ==
  /\ flight = {}
  /\ queue_arr = <<>>
  /\ uncalled = {}
  /\ \A r \in removals : r.fired

\* C38: a RemoveFile(f) called after WriteJson(f, data) leaves f absent once
\* both have completed: the removal is not overtaken by the earlier write.
C38_RemoveAfterWriteLeavesAbsent ==
  (removals # {} /\ AllCompleted) => \A r \in removals : ~files[r.file].exists

\* C38, the extent of the failure: f is absent in the end when every
\* WriteJson(f, data) called before the RemoveFile(f) had been called back
\* by then.
C38_RemoveAfterCallbackLeavesAbsent ==
  (removals # {} /\ AllCompleted) =>
     \A r \in removals : ~r.pending => ~files[r.file].exists

\* the removal ran, the write it came after completed, and the file is there
C38_WriteOvertookRemoval ==
  /\ removals # {}
  /\ AllCompleted
  /\ \E r \in removals : r.pending /\ files[r.file].exists

\* the step leaves every key that is set, and that it does not set itself,
\* with the value getKey returned before
KeepsSetKeys ==
  \A key \in Keys :
    (HasOwn(content_obj.items, key) /\ ~(\E value \in Scalars : SetKey(key, value)))
      => getKey(content_obj', key) = getKey(content_obj, key)

\* C39: whatever the interleaving of the constructor's load with later
\* calls, once setKey(k, v) has returned getKey(k) returns v until a later
\* setKey(k): neither the completion of the load nor synchronize() discards
\* or overwrites a key that is set.
C39_SetKeySurvivesLoad == [][KeepsSetKeys]_vars

\* C39, the extent of the failure: once the storage is ready, by the load or
\* by synchronize(), a key that is set keeps its value until the next
\* setKey of that key.
C39_SetKeySurvivesOnceReady == [][is_ready => KeepsSetKeys]_vars

\* the load completed and a key set before it is gone
C39_LoadDiscardedKey ==
  /\ is_ready
  /\ \E c \in uncalled : \E key \in Keys :
       HasOwn(c.json, key) /\ ~HasOwn(content_obj.items, key)

\* a consented restore from a file that is missing, is not JSON or has no
\* data_points
RestoreFails ==
  /\ \E ri \in BOOLEAN : DatabaseRestore("YES", ri)
  /\ \/ ~backups_dir_file.exists
     \/ backups_dir_file.form \in Malformed
\* the shard files, the index files, the index and the RAM buffer stay
DatabaseUntouched ==
  UNCHANGED <<shards, index_json, index_backup_json, index, data_in_ram>>

\* C40: a databaseRestore("YES", path) that fails because the backup file is
\* missing, is not valid JSON or lacks data_points leaves the shard files,
\* the index files, the in-memory index and the RAM buffer as they were.
C40_FailedRestoreLeavesDatabase ==
  [][RestoreFails => DatabaseUntouched]_vars

\* C40, the extent of the failure: the database is left as it was when the
\* file is missing or is not JSON.
C40_UnreadableBackupLeavesDatabase ==
  [][(RestoreFails /\ backups_dir_file.form # "no_data_points") => DatabaseUntouched]_vars

\* a restore from a backup without data_points has emptied a database that
\* held a shard file
C40_FailedRestoreCleared ==
  /\ backups_dir_file.exists
  /\ backups_dir_file.form = "no_data_points"
  /\ writes > 0
  /\ shards = EmptyMap
  /\ data_in_ram = <<>>
  /\ db_cleared

====
